---- MODULE Spec2Model ----
(***************************************************************************)
(* ColorGen: the cohesion scorer, the room and wardrobe assignment engines *)
(* and the seeded harmony generator, as state machines.                    *)
(*                                                                         *)
(* Number representation.  The program computes in IEEE doubles; the model *)
(* computes in fixed point:                                                *)
(*   - colour coordinates L, C, H and lightness targets are in hundredths  *)
(*     (L = 4550 is lightness 45.5, H = 9000 is hue 90 degrees);           *)
(*   - sub-scores are in hundredths of a point (10000 = 100 points);       *)
(*   - item weights are in tenths (weight 30 is 3.0);                      *)
(*   - a chroma.Color is the record [L, C, H]; chroma-js reports the hue   *)
(*     of an achromatic colour as NaN, which the code reads as `h || 0`.   *)
(* Divisions round down where the program's doubles would keep a fraction. *)
(***************************************************************************)
EXTENDS Integers, Sequences, FiniteSets, TLC

\* ------------------------------------------------------------------------
\* Arithmetic helpers (Math.abs, Math.min, Math.max, Math.sqrt, reduce)
\* ------------------------------------------------------------------------

Abs(x) == IF x < 0 THEN -x ELSE x

Min2(a, b) == IF a < b THEN a ELSE b

Max2(a, b) == IF a > b THEN a ELSE b

Clamp(lo, hi, x) == Max2(lo, Min2(hi, x))

RECURSIVE SumTo(_, _)
SumTo(s, n) == IF n = 0 THEN 0 ELSE s[n] + SumTo(s, n - 1)

\* xs.reduce((s, x) => s + x, 0)
SumSeq(s) == SumTo(s, Len(s))

RECURSIVE SqrtIter(_, _, _)
SqrtIter(x, lo, hi) ==
  IF lo >= hi THEN lo
  ELSE LET mid == (lo + hi + 1) \div 2
       IN  IF mid * mid <= x THEN SqrtIter(x, mid, hi) ELSE SqrtIter(x, lo, mid - 1)

\* floor(Math.sqrt(x)) for 0 <= x < 46340^2
Sqrt(x) == SqrtIter(x, 0, 46339)

\* [...Ls].sort((a, b) => a - b)
SortAsc(s) == SortSeq(s, <)

\* population standard deviation, rounded down:
\* Math.sqrt(xs.reduce((s, x) => s + (x - mean) ** 2, 0) / xs.length)
StdDev(xs) ==
  LET n    == Len(xs)
      mean == SumSeq(xs) \div n
      sq   == [i \in 1..n |-> (xs[i] - mean) * (xs[i] - mean)]
  IN  Sqrt(SumSeq(sq) \div n)

\* ------------------------------------------------------------------------
\* Colours
\* ------------------------------------------------------------------------

NoColor == [L |-> -1, C |-> -1, H |-> -1]   \* item.color === null

lch(l, c, h) == [L |-> l, C |-> c, H |-> IF c = 0 THEN 0 ELSE h]

\* c.hex(): the key the engines use to tell colours apart
hex(c) == <<c.L, c.C, c.H>>

\* c.lch()[2] || 0
hueOf(c) == IF c.C = 0 THEN 0 ELSE c.H

\* ------------------------------------------------------------------------
\* Cohesion scorer (roomAssigner.ts)
\* ------------------------------------------------------------------------

Algorithms == {"surface-area", "tonal-gradient", "anchor-piece", "minimal-palette"}

\* ALGORITHM_WEIGHTS, in hundredths
ALGORITHM_WEIGHTS(a) ==
  CASE a = "surface-area"    -> [hueCohesion |-> 45, saturationCoherence |-> 25, lightnessReasonableness |-> 30]
    [] a = "tonal-gradient"  -> [hueCohesion |-> 55, saturationCoherence |-> 20, lightnessReasonableness |-> 25]
    [] a = "anchor-piece"    -> [hueCohesion |-> 40, saturationCoherence |-> 30, lightnessReasonableness |-> 30]
    [] a = "minimal-palette" -> [hueCohesion |-> 50, saturationCoherence |-> 30, lightnessReasonableness |-> 20]

\* "no weights argument" (weights === undefined)
NoWeights == <<-1>>

\* a weight argument that is undefined
NoWeight == -1

\* lightnessReasonablenessScore not called
NoLight == [common |-> -1, spread |-> -1, flat |-> -1]

\* no two lists scored beside each other
NoCompare == [left |-> -1, right |-> -1]

\* no call made beside the last one
NoTwin == [batchSeed |-> -1, variation |-> -1, colors |-> <<>>]

\* diversityBonus not called
NoBonus == [uses |-> -1, paletteSize |-> -1, totalUnassigned |-> -1, value |-> 0]

\* Math.max(1, Math.round(w)) for a weight in tenths
\* a variant that cuts the weight off: Math.floor in the place of Math.round
repsOfFloor(w) == Max2(1, w \div 10)

repsOf(w) == IF w < 5 THEN 1 ELSE Max2(1, (w + 5) \div 10)

repeatColor(c, n) == [j \in 1..n |-> c]

RECURSIVE expandFrom(_, _, _)
expandFrom(colors, weights, i) ==
  IF i > Len(colors) THEN <<>>
  ELSE repeatColor(colors[i], repsOf(weights[i])) \o expandFrom(colors, weights, i + 1)

expandByWeights(colors, weights) ==
  IF weights = NoWeights \/ Len(weights) # Len(colors) THEN colors
  ELSE expandFrom(colors, weights, 1)

\* Math.min(Math.abs(h - center), 360 - Math.abs(h - center))
hueDist(h, center) == Min2(Abs(h - center), 36000 - Abs(h - center))

\* cluster.reduce((s, v) => s + v, 0) / cluster.length
clusterCenter(cluster) == SumSeq(cluster) \div Len(cluster)

\* index of the first cluster whose centre is nearer than thr, 0 if none
firstNearCluster(clusters, h, thr) ==
  LET near == {i \in 1..Len(clusters) : hueDist(h, clusterCenter(clusters[i])) < thr}
  IN  IF near = {} THEN 0 ELSE CHOOSE i \in near : \A j \in near : i <= j

RECURSIVE clusterHues(_, _, _)
clusterHues(hues, clusters, thr) ==
  IF hues = <<>> THEN clusters
  ELSE LET h == Head(hues)
           i == firstNearCluster(clusters, h, thr)
       IN  clusterHues(Tail(hues),
                       IF i = 0 THEN Append(clusters, <<h>>)
                                ELSE [clusters EXCEPT ![i] = Append(@, h)],
                       thr)

\* a variant that lets the threshold itself through
isChromatic8Inclusive(c) == c.C >= 800

isChromatic8(c) == c.C > 800

getPaletteHueClusters(pal) ==
  LET chromatic == SelectSeq(pal, isChromatic8)
  IN  IF chromatic = <<>> THEN <<>>
      ELSE clusterHues([i \in 1..Len(chromatic) |-> hueOf(chromatic[i])], <<>>, 4500)

hueCohesionScore(colors, paletteClusters) ==
  LET chromatic == SelectSeq(colors, isChromatic8)
      hues      == [i \in 1..Len(chromatic) |-> hueOf(chromatic[i])]
      bestDist(h) ==
        LET ds == {hueDist(h, clusterCenter(paletteClusters[k])) : k \in 1..Len(paletteClusters)}
        IN  CHOOSE d \in ds : \A e \in ds : d <= e
      fit(h) == Max2(0, 10000 - bestDist(h) * 2)
      n == Len(clusterHues(hues, <<>>, 4000))
  IN  IF Len(chromatic) <= 1 THEN 10000
      ELSE IF Len(paletteClusters) > 0 THEN SumSeq([i \in 1..Len(hues) |-> fit(hues[i])]) \div Len(hues)
      ELSE IF n <= 2 THEN 10000
      ELSE IF n = 3 THEN 7500
      ELSE IF n = 4 THEN 5000
      ELSE Max2(0, 4000 - (n - 4) * 1500)

chromaOf(c) == c.C

saturationCoherenceScore(colors) ==
  LET stdDev == StdDev([i \in 1..Len(colors) |-> chromaOf(colors[i])])
  IN  IF stdDev <= 500 THEN 10000
      ELSE Clamp(0, 10000, 10500 - (stdDev * 18) \div 10)

lightnessOf(c) == c.L

\* a variant without the penalty for a total range below 15
lightnessHolesOnly(colors) ==
  LET sorted == SortAsc([i \in 1..Len(colors) |-> lightnessOf(colors[i])])
      gaps   == [i \in 1..(Len(sorted) - 1) |-> sorted[i + 1] - sorted[i]]
      hole(g) == IF g > 2000 THEN ((g - 2000) * 12) \div 10 ELSE 0
      uneven == IF Len(gaps) > 1 THEN (StdDev(gaps) * 4) \div 10 ELSE 0
  IN  Clamp(0, 10000, 10000 - SumSeq([i \in 1..Len(gaps) |-> hole(gaps[i])]) - uneven)

lightnessReasonablenessScore(colors) ==
  LET sorted == SortAsc([i \in 1..Len(colors) |-> lightnessOf(colors[i])])
      range  == sorted[Len(sorted)] - sorted[1]
      flat   == IF range < 1500 THEN (1500 - range) * 3 ELSE 0
      gaps   == [i \in 1..(Len(sorted) - 1) |-> sorted[i + 1] - sorted[i]]
      hole(g) == IF g > 2000 THEN ((g - 2000) * 12) \div 10 ELSE 0
      uneven == IF Len(gaps) > 1 THEN (StdDev(gaps) * 4) \div 10 ELSE 0
  IN  Clamp(0, 10000, 10000 - flat - SumSeq([i \in 1..Len(gaps) |-> hole(gaps[i])]) - uneven)

\* computeHarmonyScore after its early return: an integer number of points
weightedScore(colors, algorithm, pal, weights) ==
  LET expanded == expandByWeights(colors, weights)
      w     == ALGORITHM_WEIGHTS(algorithm)
      hue   == hueCohesionScore(expanded, getPaletteHueClusters(pal))
      sat   == saturationCoherenceScore(expanded)
      light == lightnessReasonablenessScore(expanded)
      total == hue * w.hueCohesion + sat * w.saturationCoherence
                 + light * w.lightnessReasonableness
  IN  Clamp(0, 100, (total + 5000) \div 10000)

\* a variant whose early return takes the empty list only
computeHarmonyScoreOffByOne(colors, algorithm, pal, weights) ==
  IF Len(colors) < 1 THEN 100 ELSE weightedScore(colors, algorithm, pal, weights)

computeHarmonyScore(colors, algorithm, pal, weights) ==
  IF Len(colors) < 2 THEN 100 ELSE weightedScore(colors, algorithm, pal, weights)

\* hueSteps x lightnessSteps x chromaSteps, chroma innermost, then the six
\* near-greys: the `generated` array of scoreCandidates
generatedSpectrum ==
  [k \in 1..72 |-> lch(<<3500, 5500, 8000>>[(((k - 1) \div 2) % 3) + 1],
                       <<1500, 4500>>[((k - 1) % 2) + 1],
                       3000 * ((k - 1) \div 6))]
    \o [k \in 1..6 |-> lch(<<2500, 4000, 5500, 7000, 8500, 9500>>[k], 300, 0)]

\* whether a colour of list[1..n] has the hex of c
seenIn(list, n, c) == \E k \in 1..n : hex(list[k]) = hex(c)

\* allColors: the palette, then the generated colours whose hex is new
candidateColors(pal) ==
  LET fresh(k) == /\ ~seenIn(pal, Len(pal), generatedSpectrum[k])
                  /\ ~seenIn(generatedSpectrum, k - 1, generatedSpectrum[k])
      kept     == SelectSeq([k \in 1..Len(generatedSpectrum) |-> k], fresh)
  IN  pal \o [i \in 1..Len(kept) |-> generatedSpectrum[kept[i]]]

\* otherWeights ? [...otherWeights, candidateWeight ?? 2] : undefined
testWeights(otherWeights, candidateWeight) ==
  IF otherWeights = NoWeights THEN NoWeights
  ELSE Append(otherWeights, IF candidateWeight = NoWeight THEN 20 ELSE candidateWeight)

\* the score scoreCandidates gives a candidate
candidateScore(candidate, pal, otherRoomColors, algorithm, otherWeights, candidateWeight) ==
  IF Len(otherRoomColors) = 0 THEN 100
  ELSE computeHarmonyScore(Append(otherRoomColors, candidate), algorithm, pal,
                           testWeights(otherWeights, candidateWeight))

\* where scored.sort((a, b) => b.score - a.score) puts element i: after the
\* higher scores and after the equal scores that came before it
sortedPosition(scores, i) ==
  1 + Cardinality({j \in 1..Len(scores) :
                     scores[j] > scores[i] \/ (scores[j] = scores[i] /\ j < i)})

\* the positions the sort gives the elements
sortedPositions(scores) == [i \in 1..Len(scores) |-> sortedPosition(scores, i)] \o <<>>

\* the elements in sorted order, from their positions
sortedOrder(positions) ==
  [p \in 1..Len(positions) |-> CHOOSE i \in 1..Len(positions) : positions[i] = p] \o <<>>

\* a variant with the thresholds 10 and 20
fitTierWithin10(score, bestScore) ==
  IF score >= bestScore - 10 THEN "great"
  ELSE IF score >= bestScore - 20 THEN "ok"
  ELSE "avoid"

fitTier(score, bestScore) ==
  IF score >= bestScore - 5 THEN "great"
  ELSE IF score >= bestScore - 20 THEN "ok"
  ELSE "avoid"

\* the records of the sorted array with their tiers
tieredCandidates(allColors, scores, sortedIdx, pal) ==
  [p \in 1..Len(allColors) |->
     [color     |-> allColors[sortedIdx[p]],
      score     |-> scores[sortedIdx[p]],
      tier      |-> fitTier(scores[sortedIdx[p]], scores[sortedIdx[1]]),
      inPalette |-> seenIn(pal, Len(pal), allColors[sortedIdx[p]])]] \o <<>>

\* the sorted array from the scores of allColors
sortedCandidates(allColors, scores, pal) ==
  tieredCandidates(allColors, scores, sortedOrder(sortedPositions(scores)), pal)

\* the scores of allColors
scoresOf(allColors, pal, otherRoomColors, algorithm, otherWeights, candidateWeight) ==
  [k \in 1..Len(allColors) |->
     candidateScore(allColors[k], pal, otherRoomColors, algorithm, otherWeights,
                    candidateWeight)] \o <<>>

scoreCandidates(pal, otherRoomColors, algorithm, otherWeights, candidateWeight) ==
  sortedCandidates(candidateColors(pal),
                   scoresOf(candidateColors(pal), pal, otherRoomColors, algorithm,
                            otherWeights, candidateWeight),
                   pal)

RECURSIVE findIndexFrom(_, _, _)
findIndexFrom(allColors, color, i) ==
  IF i > Len(allColors) THEN 0
  ELSE IF hex(allColors[i]) = hex(color) THEN i
  ELSE findIndexFrom(allColors, color, i + 1)

\* allColors.findIndex((c) => c.hex() === color.hex()), counted from 1; 0: -1
findIndex(allColors, color) == findIndexFrom(allColors, color, 1)

\* allColors.filter((c) => c.hex() !== color.hex())
withoutColor(allColors, color) ==
  LET keeps(c) == hex(c) # hex(color) IN SelectSeq(allColors, keeps)

\* allWeights ? allWeights.filter((_, i) => i !== idx) : undefined
weightsWithoutIdx(allWeights, idx) ==
  IF allWeights = NoWeights THEN NoWeights
  ELSE [k \in 1..(Len(allWeights) - (IF idx \in 1..Len(allWeights) THEN 1 ELSE 0)) |->
          IF idx = 0 \/ k < idx THEN allWeights[k] ELSE allWeights[k + 1]] \o <<>>

\* a variant that takes out of the weights every position it takes out of the colours
weightsWithoutAll(allColors, color, allWeights) ==
  IF allWeights = NoWeights \/ Len(allWeights) # Len(allColors) THEN allWeights
  ELSE LET kept == SelectSeq([k \in 1..Len(allColors) |-> k],
                             LAMBDA k : hex(allColors[k]) # hex(color))
       IN  [k \in 1..Len(kept) |-> allWeights[kept[k]]] \o <<>>

\* the difference of the two scores, given the second score's colours and weights
scoreDifference(allColors, without, algorithm, pal, allWeights, weightsWithout) ==
  IF Len(without) < 2 THEN 0
  ELSE computeHarmonyScore(allColors, algorithm, pal, allWeights)
         - computeHarmonyScore(without, algorithm, pal, weightsWithout)

itemScoreDelta(color, allColors, algorithm, pal, allWeights) ==
  scoreDifference(allColors, withoutColor(allColors, color), algorithm, pal, allWeights,
                  weightsWithoutIdx(allWeights, findIndex(allColors, color)))

\* ------------------------------------------------------------------------
\* Room item catalog (itemCatalog.ts) and tendency bonus
\* ------------------------------------------------------------------------

\* name.toLowerCase().trim(), on the names the model uses
lowerTrim(name) ==
  CASE name = "Floors"    -> "floors"
    [] name = "FLOORS "   -> "floors"
    [] name = "Main Wall" -> "main wall"
    [] name = "Doors"     -> "doors"
    [] name = "Vase"      -> "vase"
    [] name = "Belt"      -> "belt"
    [] name = "T-Shirt"   -> "t-shirt"
    [] name = "T-Shirt 2" -> "t-shirt 2"
    [] name = "T-Shirt 3" -> "t-shirt 3"
    [] name = "Belt 2"    -> "belt 2"
    [] name = "Sweater"   -> "sweater"
    [] name = "Scarf"     -> "scarf"
    [] OTHER              -> name

\* the entries of ITEM_CATALOG the model's names can hit; lightness in units
ITEM_CATALOG ==
  { [name |-> "floors",    weight |-> 100, lightnessRange |-> <<20, 65>>, role |-> "ground"],
    [name |-> "main wall", weight |-> 100, lightnessRange |-> <<75, 97>>, role |-> "background"],
    [name |-> "doors",     weight |-> 30,  lightnessRange |-> <<75, 97>>, role |-> "neutral"],
    [name |-> "vase",      weight |-> 10,  lightnessRange |-> <<20, 80>>, role |-> "accent"] }

catalogHit(name) == {e \in ITEM_CATALOG : e.name = lowerTrim(name)}

getCatalogWeight(name) ==
  IF catalogHit(name) = {} THEN 30 ELSE (CHOOSE e \in catalogHit(name) : TRUE).weight

getCatalogLightnessRange(name) ==
  IF catalogHit(name) = {} THEN <<20, 90>>
  ELSE (CHOOSE e \in catalogHit(name) : TRUE).lightnessRange

getCatalogRole(name) ==
  IF catalogHit(name) = {} THEN "anchor" ELSE (CHOOSE e \in catalogHit(name) : TRUE).role

Tendencies == {"any", "lighter", "darker", "warmer", "cooler", "neutral", "bold"}

\* points; a NaN hue (achromatic colour) fails both hue comparisons
tendencyBonus(candidate, tendency) ==
  LET L == candidate.L
      C == candidate.C
      H == candidate.H
      hasHue == candidate.C # 0
  IN  CASE tendency = "any"     -> 0
        [] tendency = "lighter" ->
             (IF L > 8000 THEN 8 ELSE IF L > 6500 THEN 3 ELSE IF L > 5000 THEN 0 ELSE -5)
             + (IF C > 3500 THEN -4 ELSE IF C > 2000 THEN -1 ELSE 0)
        [] tendency = "darker"  -> IF L < 4000 THEN 4 ELSE IF L < 5500 THEN 1 ELSE -3
        [] tendency = "warmer"  -> IF hasHue /\ (H <= 9000 \/ H >= 30000) THEN 4 ELSE -1
        [] tendency = "cooler"  -> IF hasHue /\ (H >= 15000 /\ H <= 27000) THEN 4 ELSE -1
        [] tendency = "neutral" ->
             (IF C < 800 THEN 6 ELSE IF C < 1500 THEN 3 ELSE -3)
             + (IF L > 5000 THEN 1 ELSE -1)
        [] tendency = "bold"    -> IF C > 3000 THEN 4 ELSE IF C > 1500 THEN 1 ELSE -2

\* ------------------------------------------------------------------------
\* autoFillRoom (roomAssigner.ts)
\* ------------------------------------------------------------------------

\* usageCount.get(hex) || 0
usesOf(usage, c) == IF hex(c) \in DOMAIN usage THEN usage[hex(c)] ELSE 0

\* a variant without the "push harder for diversity" step
diversityBonusNoPush(uses, paletteSize, totalUnassigned) ==
  IF uses = 0 THEN 25 ELSE IF uses = 1 THEN 8 ELSE Max2(-10, 5 - uses * 5)

\* the "3. Diversity bonus" block of itemFitScore, in points
diversityBonus(uses, paletteSize, totalUnassigned) ==
  LET base == IF uses = 0 THEN 25
              ELSE IF uses = 1 THEN 8
              ELSE Max2(-10, 5 - uses * 5)
  IN  IF paletteSize > totalUnassigned /\ uses > 0 THEN base - 10 ELSE base

\* the "2. Role fit" block of itemFitScore, in points
roleFit(itemRole, L, C) ==
  CASE itemRole = "background" ->
         (IF C < 1000 THEN 10 ELSE IF C < 2000 THEN 5 ELSE -5) + (IF L > 7500 THEN 5 ELSE 0)
    [] itemRole = "ground" ->
         (IF L < 6500 THEN 8 ELSE -5) + (IF C > 500 /\ C < 3500 THEN 7 ELSE 0)
    [] itemRole = "accent" -> IF C > 2000 THEN 12 ELSE IF C > 1000 THEN 6 ELSE 0
    [] itemRole = "anchor" ->
         (IF L > 2500 /\ L < 8000 THEN 5 ELSE 0) + (IF C > 500 THEN 3 ELSE 0)
    [] itemRole = "neutral" -> IF C < 1200 THEN 10 ELSE IF C < 2000 THEN 3 ELSE -8
    [] OTHER -> 0

\* the "1. Lightness fit" block, multiplied by 1000 * (maxL - minL)
lightnessFitScaled(L, minL, maxL) ==
  LET R == maxL - minL
  IN  IF L >= 100 * minL /\ L <= 100 * maxL
      THEN 30000 * R - 100 * Abs(2 * L - 100 * (minL + maxL))
      ELSE - 8 * R * (IF L < 100 * minL THEN 100 * minL - L ELSE L - 100 * maxL)

\* itemFitScore multiplied by 1000 * (maxL - minL): the factor is the same for
\* every candidate of one item, so comparisons between candidates are exact
itemFitScore(candidate, itemName, itemRole, lightnessRange, rColors, rWeights, itemWeight, algorithm, pal, usage, totalUnassigned, tendency) ==
  LET minL == lightnessRange[1]
      maxL == lightnessRange[2]
      K    == 1000 * (maxL - minL)
      harmony == computeHarmonyScore(Append(rColors, candidate), algorithm, pal,
                                     Append(rWeights, itemWeight))
  IN  lightnessFitScaled(candidate.L, minL, maxL)
      + K * roleFit(itemRole, candidate.L, candidate.C)
      + K * diversityBonus(usesOf(usage, candidate), Len(pal), totalUnassigned)
      + (K \div 10) * 3 * harmony
      + K * tendencyBonus(candidate, tendency)

\* ------------------------------------------------------------------------
\* chroma.deltaE (chroma-js).  The library computes CIEDE2000; the model
\* computes the Euclidean distance in Lab from L, C and the hue difference,
\* in hundredths, with the cosine read from a ten-degree table.
\* ------------------------------------------------------------------------

\* 1000 * cos(10 * k degrees), k = 0..9, at index k + 1
CosTable == <<1000, 985, 940, 866, 766, 643, 500, 342, 174, 0>>

\* 1000 * cos(d / 100 degrees) for 0 <= d <= 9000, interpolated
cosQuadrant(d) ==
  LET k == d \div 1000
      r == d - 1000 * k
  IN  IF k >= 9 THEN 0
      ELSE CosTable[k + 1] - ((CosTable[k + 1] - CosTable[k + 2]) * r) \div 1000

\* 1000 * cos(d / 100 degrees) for 0 <= d <= 36000
cosMilli(d) ==
  LET e == IF d > 18000 THEN 36000 - d ELSE d
  IN  IF e <= 9000 THEN cosQuadrant(e) ELSE - cosQuadrant(18000 - e)

deltaE(c1, c2) ==
  LET dL   == c1.L - c2.L
      dh   == Abs(hueOf(c1) - hueOf(c2))
      mix  == ((c1.C * c2.C) \div 1000) * cosMilli(dh)
      sq   == dL * dL + c1.C * c1.C + c2.C * c2.C - 2 * mix
  IN  Sqrt(Max2(0, sq))

\* ------------------------------------------------------------------------
\* Wardrobe catalog (wardrobeCatalog.ts) and autoFillWardrobe
\* ------------------------------------------------------------------------

\* name.replace(/\s+\d+$/, ""), on the names the model uses
baseName(name) ==
  CASE name = "T-Shirt 2" -> "T-Shirt"
    [] name = "T-Shirt 3" -> "T-Shirt"
    [] name = "Belt 2"    -> "Belt"
    [] OTHER              -> name

\* the entries of WARDROBE_CATALOG the model's names can hit; lightness in units
WARDROBE_CATALOG ==
  { [name |-> "belt",    weight |-> 10, lightnessRange |-> <<10, 40>>, role |-> "foundation"],
    [name |-> "t-shirt", weight |-> 60, lightnessRange |-> <<15, 92>>, role |-> "core"],
    [name |-> "sweater", weight |-> 70, lightnessRange |-> <<15, 80>>, role |-> "core"],
    [name |-> "scarf",   weight |-> 30, lightnessRange |-> <<20, 75>>, role |-> "accent"] }

\* the set of catalog entries found (empty: getWardrobeItem returns undefined)
getWardrobeItem(name) == {e \in WARDROBE_CATALOG : e.name = lowerTrim(name)}

isUnassigned(item) == item.color = NoColor

\* typeCounts.get(base) || 1
typeCount(list, base) ==
  Max2(1, Cardinality({j \in 1..Len(list) :
                         isUnassigned(list[j]) /\ baseName(list[j].name) = base}))

\* typeIdx.get(base) || 0 when the loop reaches index i
typeInstance(list, i) ==
  Cardinality({j \in 1..(i - 1) :
                 isUnassigned(list[j]) /\ baseName(list[j].name) = baseName(list[i].name)})

wardrobeRange(base) ==
  IF getWardrobeItem(base) = {} THEN <<20, 80>>
  ELSE (CHOOSE e \in getWardrobeItem(base) : TRUE).lightnessRange

wardrobeRole(base) ==
  IF getWardrobeItem(base) = {} THEN "core"
  ELSE (CHOOSE e \in getWardrobeItem(base) : TRUE).role

\* a variant that targets the midpoint of the range for every instance
targetLMidpoint(list, i) ==
  50 * (wardrobeRange(baseName(list[i].name))[1] + wardrobeRange(baseName(list[i].name))[2])

\* targetL of the unassigned item at index i, in hundredths
targetL(list, i) ==
  LET base     == baseName(list[i].name)
      count    == typeCount(list, base)
      instance == typeInstance(list, i)
      minL     == wardrobeRange(base)[1]
      maxL     == wardrobeRange(base)[2]
  IN  IF count > 1 THEN 100 * minL + (instance * 100 * (maxL - minL)) \div (count - 1)
      ELSE 50 * (minL + maxL)

laneItem(list, i) ==
  LET base == baseName(list[i].name)
  IN  [idx |-> i, targetL |-> targetL(list, i),
       rangeWidth |-> wardrobeRange(base)[2] - wardrobeRange(base)[1]]

RECURSIVE laneFromAll(_, _, _)
\* a variant that also puts the items that already have a colour in the lanes
laneFromAll(list, i, wantFoundation) ==
  IF i > Len(list) THEN <<>>
  ELSE IF (wardrobeRole(baseName(list[i].name)) = "foundation") = wantFoundation
       THEN <<laneItem(list, i)>> \o laneFromAll(list, i + 1, wantFoundation)
       ELSE laneFromAll(list, i + 1, wantFoundation)

RECURSIVE laneFrom(_, _, _)
\* the lane (foundation or not) of the unassigned items from index i on
laneFrom(list, i, wantFoundation) ==
  IF i > Len(list) THEN <<>>
  ELSE IF isUnassigned(list[i])
          /\ ((wardrobeRole(baseName(list[i].name)) = "foundation") = wantFoundation)
       THEN <<laneItem(list, i)>> \o laneFrom(list, i + 1, wantFoundation)
       ELSE laneFrom(list, i + 1, wantFoundation)

RECURSIVE insertByKey(_, _, _)
\* index x goes before the first index of acc whose key is greater (a stable
\* insertion: equal keys keep their order)
insertByKey(keys, x, acc) ==
  IF acc = <<>> THEN <<x>>
  ELSE IF keys[Head(acc)] > keys[x] THEN <<x>> \o acc
  ELSE <<Head(acc)>> \o insertByKey(keys, x, Tail(acc))

RECURSIVE sortFrom(_, _, _)
sortFrom(keys, i, acc) ==
  IF i > Len(keys) THEN acc ELSE sortFrom(keys, i + 1, insertByKey(keys, i, acc))

\* Array.prototype.sort with the comparator (a, b) => key(a) - key(b), where
\* keys[i] is the key of s[i]: ascending and stable
sortByKey(s, keys) ==
  LET perm == sortFrom(keys, 1, <<>>) IN [i \in 1..Len(s) |-> s[perm[i]]]

removeAt(s, i) == SubSeq(s, 1, i - 1) \o SubSeq(s, i + 1, Len(s))

isChromatic12(c) == c.C > 1200

isNeutral12(c) == c.C <= 1200

\* the smallest distance from c to a colour already picked
minDistTo(c, picked) ==
  LET ds == {deltaE(c, picked[k]) : k \in 1..Len(picked)}
  IN  CHOOSE d \in ds : \A e \in ds : d <= e

\* the first index of remaining with the greatest minDistTo
farthestIdx(remaining, picked) ==
  CHOOSE j \in 1..Len(remaining) :
    /\ \A k \in 1..Len(remaining) : minDistTo(remaining[k], picked) <= minDistTo(remaining[j], picked)
    /\ \A k \in 1..(j - 1) : minDistTo(remaining[k], picked) < minDistTo(remaining[j], picked)

RECURSIVE pickAccentColors(_, _, _, _)
\* the "Greedy diverse selection" loop; returns accentColors and what remains
pickAccentColors(i, nAccent, accentColors, remaining) ==
  IF i >= nAccent \/ remaining = <<>>
  THEN [accentColors |-> accentColors, remaining |-> remaining]
  ELSE IF i = 0
  THEN pickAccentColors(1, nAccent, <<Head(remaining)>>, Tail(remaining))
  ELSE LET bestIdx == farthestIdx(remaining, accentColors)
       IN  pickAccentColors(i + 1, nAccent, Append(accentColors, remaining[bestIdx]),
                            removeAt(remaining, bestIdx))

\* the first index of pool whose lightness is nearest to target
nearestIdx(pool, target) ==
  CHOOSE j \in 1..Len(pool) :
    /\ \A k \in 1..Len(pool) : Abs(pool[j].L - target) <= Abs(pool[k].L - target)
    /\ \A k \in 1..(j - 1) : Abs(pool[j].L - target) < Abs(pool[k].L - target)

RECURSIVE matchLoop(_, _, _, _)
matchLoop(res, lane, pool, deplete) ==
  IF lane = <<>> \/ pool = <<>> THEN res
  ELSE LET item    == Head(lane)
           bestIdx == nearestIdx(pool, item.targetL)
       IN  matchLoop([res EXCEPT ![item.idx].color = pool[bestIdx]],
                     Tail(lane),
                     IF deplete THEN removeAt(pool, bestIdx) ELSE pool,
                     deplete)

\* matchByTarget writes into result; here it returns the new result
matchByTarget(res, lane, colors, deplete) ==
  IF Len(lane) = 0 \/ Len(colors) = 0 THEN res ELSE matchLoop(res, lane, colors, deplete)

\* autoFillWardrobe after its empty-palette guard
fillLanes(list, pal) ==
  LET foundation == laneFrom(list, 1, TRUE)
      accent0    == laneFrom(list, 1, FALSE)
      chromatic0 == SelectSeq(pal, isChromatic12)
      chromatic  == sortByKey(chromatic0, [i \in 1..Len(chromatic0) |-> - chromatic0[i].C])
      neutral    == SelectSeq(pal, isNeutral12)
      greedy     == pickAccentColors(0, Len(accent0), <<>>, chromatic)
      accentColors == greedy.accentColors
      needed     == Max2(0, Len(foundation) - Len(neutral))
      sortedRest == sortByKey(greedy.remaining,
                              [i \in 1..Len(greedy.remaining) |-> greedy.remaining[i].C])
      extras     == SubSeq(sortedRest, 1, Min2(needed, Len(sortedRest)))
      foundationColors == neutral \o extras
      accent     == sortByKey(accent0, [i \in 1..Len(accent0) |-> accent0[i].rangeWidth])
  IN  IF Len(accentColors) = 0
      THEN matchByTarget(list, foundation \o accent, pal, FALSE)
      ELSE IF Len(foundationColors) = 0
      THEN matchByTarget(list, foundation \o accent, pal, TRUE)
      ELSE matchByTarget(matchByTarget(list, accent, accentColors, TRUE),
                         foundation, foundationColors, FALSE)

\* a variant whose empty-palette guard returns an empty list
autoFillWardrobeDropsAll(list, pal) ==
  IF Len(pal) = 0 THEN <<>> ELSE fillLanes(list, pal)

autoFillWardrobe(list, pal) ==
  IF Len(pal) = 0 THEN list ELSE fillLanes(list, pal)

\* ------------------------------------------------------------------------
\* State
\* ------------------------------------------------------------------------

VARIABLES
  items,        \* the item list passed to autoFillRoom / autoFillWardrobe
  palette,      \* the palette passed to it
  fn,           \* "none", "room" or "wardrobe": the function that was called
  algorithm,    \* the FillAlgorithm passed to autoFillRoom
  pc,           \* "ready", "room" (inside autoFillRoom's loop) or "done"
  result,       \* autoFillRoom's `result` array; the returned list once pc = "done"
  roomColors,   \* autoFillRoom's running colours
  roomWeights,  \* and their weights
  usageCount,   \* Map<hex, number> over the palette's hex codes
  order,        \* unassignedIndices not yet processed
  remaining,    \* autoFillRoom's `remaining` counter
  sColors,      \* computeHarmonyScore's arguments: colors,
  sWeights,     \* weights (NoWeights: none given),
  sPalette,     \* palette
  sAlgorithm,   \* and algorithm
  sScore,       \* what it returned (-1: not called yet)
  sOp,          \* "none", or the scorer function that was called last
  sColor,       \* itemScoreDelta's argument color (its allColors etc. are sColors etc.)
  sDelta,       \* what itemScoreDelta returned
  sCandWeight,  \* scoreCandidates' candidateWeight (its otherRoomColors: sColors)
  sCandidates,  \* what scoreCandidates returned
  sLight,       \* lightnessReasonablenessScore of sColors (spread) and of sColors
                \* with every lightness replaced by one value (flat, common)
  sBonus,       \* diversityBonus' last arguments and what it returned
  sOther,       \* a second colour list that was scored beside sColors
  sCompare,     \* what the scorer returned for sColors (left) and for sOther (right)
  hBases,       \* generateHarmony's arguments: lockedColors,
  hMode,        \* mode,
  hCount,       \* count
  hBatchSeed,   \* and batchSeed; variation differs from call to call
  hOut,         \* per variation, what the last call with it returned
  hCalled,      \* the variations generateHarmony was called with
  hLast,        \* the variation of the last call
  hUsed,        \* the base colours the last call generated from
  hRng,         \* the state of the generator the last call created
  hCalls,       \* the number of calls so far
  hTwin,        \* a call made beside the last one: its batchSeed, variation, colours
  roomItems,        \* RoomTab: the items of the room
  selectedTemplate, \* the value of its template select ("": none chosen yet)
  manuallyAssigned, \* the ids of the items Auto-Fill leaves alone
  nextItemId,       \* the id the next new item gets
  byHand,           \* not in the code: the ids of the items whose present colour
                    \* was picked from the palette strip
  lockedEntries,    \* PaletteTab: the colours of the locked entries,
  harmonyMode,      \* the harmony mode
  colorCount,       \* and the number of colours per suggestion
  suggestions,      \* the suggested palettes, each pinned or not
  suggestionCount,  \* how many suggestions Generate is to leave
  tabOp             \* "none", or the handler of a tab that ran last

fillVars == <<items, palette, fn, algorithm, pc, result, roomColors, roomWeights,
              usageCount, order, remaining>>

scoreInputs == <<sColors, sWeights, sPalette>>

sideVars == <<sOther, sCompare>>

scoreVars == <<scoreInputs, sAlgorithm, sScore, sOp, sColor, sDelta, sCandWeight,
               sCandidates, sLight, sBonus, sOther, sCompare>>

harmonyInputs == <<hBases, hMode, hCount, hBatchSeed>>

harmonyVars == <<harmonyInputs, hOut, hCalled, hLast, hUsed, hRng, hCalls, hTwin>>

roomVars == <<roomItems, selectedTemplate, manuallyAssigned, nextItemId, byHand>>

paletteVars == <<lockedEntries, harmonyMode, colorCount, suggestions, suggestionCount>>

tabVars == <<roomVars, paletteVars, tabOp>>

vars == <<fillVars, scoreVars, harmonyVars, tabVars>>

\* ------------------------------------------------------------------------
\* 32-bit words (harmonies.ts).  A word is kept as two 16-bit halves, so that
\* |0, >>>, ^, | and Math.imul work at their width.
\* ------------------------------------------------------------------------

Word(hi, lo) == [hi |-> hi, lo |-> lo]

\* seed |= 0 for 0 <= n < 2^31
toInt32(n) == Word(n \div 65536, n % 65536)

RECURSIVE xorBits(_, _, _)
\* a ^ b on n-bit numbers
xorBits(a, b, n) ==
  IF n = 0 THEN 0 ELSE ((a + b) % 2) + 2 * xorBits(a \div 2, b \div 2, n - 1)

RECURSIVE orBits(_, _, _)
\* a | b on n-bit numbers
orBits(a, b, n) ==
  IF n = 0 THEN 0 ELSE Max2(a % 2, b % 2) + 2 * orBits(a \div 2, b \div 2, n - 1)

\* a ^ b for two 4-bit numbers, at index 16 * a + b + 1
XorTable == [k \in 1..256 |-> xorBits((k - 1) \div 16, (k - 1) % 16, 4)] \o <<>>

\* 61 | a for a 6-bit number, at index a + 1
Or61Table == [k \in 1..64 |-> orBits(k - 1, 61, 6)] \o <<>>

\* a ^ b on 16-bit numbers, four bits at a time
xor16(a, b) ==
  XorTable[16 * (a % 16) + (b % 16) + 1]
    + 16 * XorTable[16 * ((a \div 16) % 16) + ((b \div 16) % 16) + 1]
    + 256 * XorTable[16 * ((a \div 256) % 16) + ((b \div 256) % 16) + 1]
    + 4096 * XorTable[16 * (a \div 4096) + (b \div 4096) + 1]

xor32(x, y) == Word(xor16(x.hi, y.hi), xor16(x.lo, y.lo))

\* 1 | x
or1(x) == Word(x.hi, x.lo + 1 - (x.lo % 2))

\* 61 | x
or61(x) == Word(x.hi, x.lo - (x.lo % 64) + Or61Table[(x.lo % 64) + 1])

\* (x + y) | 0
add32(x, y) ==
  LET lo == x.lo + y.lo
  IN  Word((x.hi + y.hi + (lo \div 65536)) % 65536, lo % 65536)

\* x >>> n for 0 < n < 16
shr32(x, n) ==
  Word(x.hi \div 2^n, (x.lo \div 2^n) + (x.hi % 2^n) * 2^(16 - n))

\* the four bytes of x, lowest first
bytesOf(x) == <<x.lo % 256, x.lo \div 256, x.hi % 256, x.hi \div 256>>

\* the low 32 bits of the product of two numbers given by their bytes, by long
\* multiplication
mulBytes(a, b) ==
  LET c0 == a[1] * b[1]
      c1 == a[1] * b[2] + a[2] * b[1] + (c0 \div 256)
      c2 == a[1] * b[3] + a[2] * b[2] + a[3] * b[1] + (c1 \div 256)
      c3 == a[1] * b[4] + a[2] * b[3] + a[3] * b[2] + a[4] * b[1] + (c2 \div 256)
  IN  Word((c3 % 256) * 256 + (c2 % 256), (c1 % 256) * 256 + (c0 % 256))

\* Math.imul(x, y)
imul(x, y) == mulBytes(bytesOf(x), bytesOf(y))

\* ------------------------------------------------------------------------
\* mulberry32 (harmonies.ts)
\* ------------------------------------------------------------------------

\* 0x6d2b79f5
Increment == Word(27947, 31221)

\* the closure state when no generator was created
Unseeded == Word(-1, -1)

\* seed = (seed + 0x6d2b79f5) | 0
nextState(s) == add32(s, Increment)

\* the state after n calls of rng(): s + n * 0x6d2b79f5, for 0 <= n < 2^15
advance(s, n) ==
  LET lo == n * Increment.lo
  IN  add32(s, Word((n * Increment.hi + (lo \div 65536)) % 65536, lo % 65536))

\* let t = Math.imul(seed ^ (seed >>> 15), 1 | seed)
mix1(s) == imul(xor32(s, shr32(s, 15)), or1(s))

\* t = (t + Math.imul(t ^ (t >>> 7), 61 | t)) ^ t
mix2(t) == xor32(add32(t, imul(xor32(t, shr32(t, 7)), or61(t))), t)

\* (t ^ (t >>> 14)) >>> 0
mix3(t) == xor32(t, shr32(t, 14))

\* what one call of rng() returns, times 2^32, from the state it has just stepped to
output(s) == mix3(mix2(mix1(s)))

\* floor(r * m * 2^k) for the rng() value r = w / 2^32, with m < 2^15
scaled(w, m, k) == (w.hi * m + ((w.lo * m) \div 65536)) \div 2^(16 - k)

\* ------------------------------------------------------------------------
\* Harmony generator (harmonies.ts).  A generator returns its colours and the
\* state its rng is left in.
\* ------------------------------------------------------------------------

HarmonyModes ==
  {"complementary", "analogous", "triadic", "split-complementary", "delta-e-smart"}

\* a variant that goes on from the state the last generator was left in
mulberry32Shared(seed) == IF hRng = Unseeded THEN toInt32(seed) ELSE hRng

\* mulberry32(seed): the closure state before the first call
mulberry32(seed) == toInt32(seed)

\* degrees in hundredths
rotateHue(color, degrees) ==
  lch(color.L, color.C, (hueOf(color) + degrees + 36000) % 36000)

varyLCH(color, dL, dC, dH) ==
  lch(Clamp(1500, 9700, color.L + dL),
      Clamp(0, 5500, color.C + dC),
      (hueOf(color) + dH + 36000) % 36000)

\* (rng() - 0.5) * 60, (rng() - 0.7) * 40 and (rng() - 0.5) * spread, drawn in
\* this order from state s; spread in hundredths
jitter(base, s, spread) ==
  varyLCH(base,
          scaled(output(advance(s, 1)), 6000, 0) - 3000,
          scaled(output(advance(s, 2)), 4000, 0) - 2800,
          scaled(output(advance(s, 3)), spread, 0) - (spread \div 2))

RECURSIVE complementaryLoop(_, _, _, _, _)
complementaryLoop(i, count, allBases, s, results) ==
  IF i >= count THEN [colors |-> results, rng |-> s]
  ELSE complementaryLoop(i + 1, count, allBases, advance(s, 3),
                         Append(results, jitter(allBases[(i % Len(allBases)) + 1], s, 3000)))

\* a variant that cycles through the complements only
genComplementaryRotatedOnly(bases, count, s) ==
  complementaryLoop(0, count, [k \in 1..Len(bases) |-> rotateHue(bases[k], 18000)], s, <<>>)

genComplementary(bases, count, s) ==
  LET complements == [k \in 1..Len(bases) |-> rotateHue(bases[k], 18000)]
  IN  complementaryLoop(0, count, complements \o bases, s, <<>>)

RECURSIVE genAnalogousLoop(_, _, _, _, _)
genAnalogousLoop(i, count, bases, s, results) ==
  IF i >= count THEN [colors |-> results, rng |-> s]
  ELSE genAnalogousLoop(i + 1, count, bases, advance(s, 3),
                        Append(results, jitter(bases[(i % Len(bases)) + 1], s, 7000)))

genAnalogous(bases, count, s) == genAnalogousLoop(0, count, bases, s, <<>>)

RECURSIVE offsetLoop(_, _, _, _, _, _)
\* the loop genTriadic and genSplitComplementary share, but for their offsets
offsetLoop(i, count, bases, offsets, s, results) ==
  IF i >= count THEN [colors |-> results, rng |-> s]
  ELSE LET base   == bases[(i % Len(bases)) + 1]
           offset == offsets[(i % Len(offsets)) + 1]
       IN  offsetLoop(i + 1, count, bases, offsets, advance(s, 3),
                      Append(results, jitter(rotateHue(base, offset), s, 3000)))

genTriadic(bases, count, s) ==
  offsetLoop(0, count, bases, <<0, 12000, 24000>>, s, <<>>)

genSplitComplementary(bases, count, s) ==
  offsetLoop(0, count, bases, <<0, 15000, 21000>>, s, <<>>)

\* the grid of genDeltaESmart: L from 15 in steps of 8 (ten values up to 90),
\* a and b from -60 to 60 in steps of 12 (eleven values each), b innermost
GridSize == 1210

\* the candidates are numbered from 1
gridL(g) == 1500 + 800 * ((g - 1) \div 121)

gridA(g) == 1200 * (((g - 1) % 121) \div 11) - 6000

gridB(g) == 1200 * ((g - 1) % 11) - 6000

RECURSIVE acosIter(_, _, _)
\* the least d in lo..hi with cosMilli(d) <= x (cosMilli falls over 0..18000)
acosIter(x, lo, hi) ==
  IF lo >= hi THEN lo
  ELSE LET mid == (lo + hi) \div 2
       IN  IF cosMilli(mid) <= x THEN acosIter(x, lo, mid) ELSE acosIter(x, mid + 1, hi)

\* chroma.lab(l, a, b), read back as L, C, H
lab(l, a, b) ==
  LET c == Sqrt(a * a + b * b)
      d == IF c = 0 THEN 0 ELSE acosIter((1000 * a) \div c, 0, 18000)
  IN  lch(l, c, IF b >= 0 THEN d ELSE (36000 - d) % 36000)

\* the candidate colours, in the order the three loops make them (the empty
\* tail makes the sequence a computed one)
Grid == [g \in 1..GridSize |-> lab(gridL(g), gridA(g), gridB(g))] \o <<>>

\* whether candidate g comes after candidate prev in candidates.sort((a, b) =>
\* a.score - b.score): by score, and by position among equal scores; 0: none
sortsAfter(score, prev, g) ==
  \/ prev = 0
  \/ score[g] > score[prev]
  \/ score[g] = score[prev] /\ g > prev

\* the one of candidates l and r (l < r, 0: none) that the sort puts first
sortsFirst(score, l, r) ==
  IF l = 0 THEN r
  ELSE IF r = 0 THEN l
  ELSE IF score[r] < score[l] THEN r ELSE l

RECURSIVE nextSorted(_, _, _, _)
\* the candidate of lo..hi that follows prev in the sorted array, 0 when none
nextSorted(score, prev, lo, hi) ==
  IF lo = hi THEN (IF sortsAfter(score, prev, lo) THEN lo ELSE 0)
  ELSE sortsFirst(score,
                  nextSorted(score, prev, lo, (lo + hi) \div 2),
                  nextSorted(score, prev, ((lo + hi) \div 2) + 1, hi))

\* a variant that compares with the colour picked last only
farFromLastPicked(c, picked, minDist) ==
  picked = <<>> \/ deltaE(c, picked[Len(picked)]) >= minDist

\* picked.every((p) => chroma.deltaE(candidate.color, p) >= minDist)
farFromPicked(c, picked, minDist) ==
  \A p \in 1..Len(picked) : deltaE(c, picked[p]) >= minDist

RECURSIVE pickLoop(_, _, _, _, _)
RECURSIVE pickCandidate(_, _, _, _, _)
\* the body of the loop for candidate g (0: the array is exhausted)
pickCandidate(score, g, picked, count, minDist) ==
  IF g = 0 THEN picked
  ELSE pickLoop(score, g,
                IF farFromPicked(Grid[g], picked, minDist)
                THEN Append(picked, Grid[g]) ELSE picked,
                count, minDist)

\* for (const candidate of candidates), from the one after prev
pickLoop(score, prev, picked, count, minDist) ==
  IF Len(picked) >= count THEN picked
  ELSE pickCandidate(score, nextSorted(score, prev, 1, GridSize), picked, count, minDist)

\* scores in units of 1/10000; rng() is called once before the grid, once per
\* candidate and once after
square(x) == x * x

\* the scores of the candidates when the first call of rng() left state s1
candidateScores(bases, targetDist, s1) ==
  [g \in 1..GridSize |->
     SumSeq([k \in 1..Len(bases) |-> square(deltaE(Grid[g], bases[k]) - targetDist)])
       + scaled(output(advance(s1, g)), 25000, 2)] \o <<>>

genDeltaESmart(bases, count, s) ==
  [colors |-> pickLoop(candidateScores(bases,
                                       2500 + scaled(output(advance(s, 1)), 2500, 0),
                                       advance(s, 1)),
                       0, <<>>, count,
                       1000 + scaled(output(advance(s, GridSize + 2)), 1000, 0)),
   rng    |-> advance(s, GridSize + 2)]

generateFromBase(bases, mode, count, s) ==
  CASE mode = "complementary"       -> genComplementary(bases, count, s)
    [] mode = "analogous"           -> genAnalogous(bases, count, s)
    [] mode = "triadic"             -> genTriadic(bases, count, s)
    [] mode = "split-complementary" -> genSplitComplementary(bases, count, s)
    [] mode = "delta-e-smart"       -> genDeltaESmart(bases, count, s)
    [] OTHER                        -> genAnalogous(bases, count, s)

\* chroma.lch(baseL, baseC, baseHue) from three calls of rng()
randomBase(s) ==
  lch(4000 + scaled(output(advance(s, 2)), 3000, 0),
      1500 + scaled(output(advance(s, 3)), 4000, 0),
      scaled(output(advance(s, 1)), 18000, 1))

\* a result of generateFromBase with the bases it was given kept beside it
withBases(g, bases) == [colors |-> g.colors, rng |-> g.rng, bases |-> bases]

fromBases(bases, mode, count, s) ==
  withBases(generateFromBase(bases, mode, count, s), bases)

\* lockedColors, or the one random base made from three calls of rng()
basesFor(lockedColors, rng) ==
  IF Len(lockedColors) = 0 THEN <<randomBase(rng)>> ELSE lockedColors

\* the state of rng when generateFromBase is called
rngForBases(lockedColors, rng) ==
  IF Len(lockedColors) = 0 THEN advance(rng, 3) ELSE rng

\* generateHarmony from the line that creates rng
generateWith(lockedColors, mode, count, rng) ==
  fromBases(basesFor(lockedColors, rng), mode, count, rngForBases(lockedColors, rng))

\* a variant that creates its generator before it looks at count
generateHarmonySeedsFirst(lockedColors, mode, count, variation, batchSeed) ==
  IF count <= 0
  THEN [colors |-> <<>>, rng |-> mulberry32(batchSeed + variation * 7919), bases |-> <<>>]
  ELSE generateWith(lockedColors, mode, count, mulberry32(batchSeed + variation * 7919))

\* a variant that returns nothing when there is no locked colour
generateHarmonyNeedsLocked(lockedColors, mode, count, variation, batchSeed) ==
  IF Len(lockedColors) = 0 \/ count <= 0
  THEN [colors |-> <<>>, rng |-> Unseeded, bases |-> <<>>]
  ELSE generateWith(lockedColors, mode, count, mulberry32(batchSeed + variation * 7919))

\* a variant whose seeds for successive variations are 7920 apart
generateHarmonyStride7920(lockedColors, mode, count, variation, batchSeed) ==
  IF count <= 0 THEN [colors |-> <<>>, rng |-> Unseeded, bases |-> <<>>]
  ELSE generateWith(lockedColors, mode, count, mulberry32(batchSeed + variation * 7920))

\* colours: what generateHarmony returns; rng: the state of the generator it
\* created (Unseeded: none); bases: the base colours it generated from
generateHarmony(lockedColors, mode, count, variation, batchSeed) ==
  IF count <= 0 THEN [colors |-> <<>>, rng |-> Unseeded, bases |-> <<>>]
  ELSE generateWith(lockedColors, mode, count, mulberry32(batchSeed + variation * 7919))

\* ------------------------------------------------------------------------
\* Inputs of the assignment engines
\* ------------------------------------------------------------------------

MaxItems == 2

MaxPalette == 2

OffWhite   == lch(9000, 400, 9000)
Terracotta == lch(4500, 4000, 5000)
Sage       == lch(7000, 2500, 13000)

FillColors == {OffWhite, Terracotta, Sage}

\* colours an item can carry before the call (null, or picked by hand)
PresetColors == {NoColor, Sage}

ItemKinds ==
  { [name |-> "Floors",    weight |-> 30, tendency |-> "any"],
    [name |-> "Belt",      weight |-> 10, tendency |-> "neutral"],
    [name |-> "T-Shirt 2", weight |-> 20, tendency |-> "lighter"] }

FillAlgorithms == {"surface-area", "minimal-palette"}

SeqsUpTo(S, n) == UNION {[1..k -> S] : k \in 0..n}

mkItem(i, kind, color) ==
  [id |-> i, name |-> kind.name, color |-> color, weight |-> kind.weight,
   tendency |-> kind.tendency]

ItemLists ==
  { [i \in 1..Len(ks) |-> mkItem(i, ks[i][1], ks[i][2])] :
      ks \in SeqsUpTo(ItemKinds \X PresetColors, MaxItems) }

Palettes == SeqsUpTo(FillColors, MaxPalette)

\* computeHarmonyScore not in use
ScoreIdle ==
  /\ sColors = <<>>
  /\ sWeights = NoWeights
  /\ sPalette = <<>>
  /\ sAlgorithm = "surface-area"
  /\ sScore = -1
  /\ sOp = "none"
  /\ sColor = NoColor
  /\ sDelta = 0
  /\ sCandWeight = NoWeight
  /\ sCandidates = <<>>
  /\ sLight = NoLight
  /\ sBonus = NoBonus
  /\ sOther = <<>>
  /\ sCompare = NoCompare

\* generateHarmony not in use
HarmonyIdle ==
  /\ hBases = <<>>
  /\ hMode = "analogous"
  /\ hCount = 0
  /\ hBatchSeed = 0
  /\ hOut = <<>>
  /\ hCalled = {}
  /\ hLast = 0
  /\ hUsed = <<>>
  /\ hRng = Unseeded
  /\ hCalls = 0
  /\ hTwin = NoTwin

\* no tab in use
TabIdle ==
  /\ roomItems = <<>>
  /\ selectedTemplate = ""
  /\ manuallyAssigned = {}
  /\ nextItemId = 1000
  /\ byHand = {}
  /\ lockedEntries = <<lch(4999, 2072, 7628), lch(8950, 687, 8432)>>
  /\ harmonyMode = "analogous"
  /\ colorCount = 4
  /\ suggestions = <<>>
  /\ suggestionCount = 3
  /\ tabOp = "none"

\* no fill called yet
FillReady ==
  /\ fn = "none"
  /\ algorithm = "surface-area"
  /\ pc = "ready"
  /\ result = <<>>
  /\ roomColors = <<>>
  /\ roomWeights = <<>>
  /\ usageCount = << >>
  /\ order = <<>>
  /\ remaining = 0

Init ==
  /\ items \in ItemLists
  /\ palette \in Palettes
  /\ FillReady
  /\ ScoreIdle
  /\ HarmonyIdle
  /\ TabIdle

\* ------------------------------------------------------------------------
\* autoFillRoom as a loop
\* ------------------------------------------------------------------------

isAssigned(item) == item.color # NoColor

\* fixedColors and fixedWeights
fixedColors(list) ==
  LET fixed == SelectSeq(list, isAssigned) IN [i \in 1..Len(fixed) |-> fixed[i].color]

fixedWeights(list) ==
  LET fixed == SelectSeq(list, isAssigned) IN [i \in 1..Len(fixed) |-> fixed[i].weight]

\* usageCount after the two set-up loops
initialUsage(pal, fixed) ==
  [h \in {hex(pal[k]) : k \in 1..Len(pal)} |->
     Cardinality({k \in 1..Len(fixed) : hex(fixed[k]) = h})]

RECURSIVE unassignedFromAll(_, _)
\* a variant whose filter lets every item through
unassignedFromAll(list, i) ==
  IF i > Len(list) THEN <<>>
  ELSE <<[item |-> list[i], idx |-> i]>> \o unassignedFromAll(list, i + 1)

RECURSIVE unassignedFrom(_, _)
unassignedFrom(list, i) ==
  IF i > Len(list) THEN <<>>
  ELSE IF isUnassigned(list[i])
       THEN <<[item |-> list[i], idx |-> i]>> \o unassignedFrom(list, i + 1)
       ELSE unassignedFrom(list, i + 1)

\* a variant that leaves the unassigned items in list order
unassignedInListOrder(list) ==
  LET entries == unassignedFrom(list, 1) IN [i \in 1..Len(entries) |-> entries[i].idx]

\* result.map(...).filter(color === null).sort((a, b) => b.item.weight - a.item.weight)
unassignedIndices(list) ==
  LET entries == unassignedFrom(list, 1)
      sorted  == sortByKey(entries, [i \in 1..Len(entries) |-> - entries[i].item.weight])
  IN  [i \in 1..Len(sorted) |-> sorted[i].idx]

\* bestScore starts at -Infinity: below every score
NegInfinity == -2147483647

RECURSIVE pickBestUnused(_, _, _, _, _, _, _, _, _, _)
\* a variant that passes over the candidates the room already uses
pickBestUnused(k, bestIdx, bestScore, item, pal, alg, rColors, rWeights, usage, rem) ==
  IF k > Len(pal) THEN bestIdx
  ELSE LET score == itemFitScore(pal[k], item.name, getCatalogRole(item.name),
                                 getCatalogLightnessRange(item.name), rColors, rWeights,
                                 item.weight, alg, pal, usage, rem, item.tendency)
       IN  IF score > bestScore /\ usage[hex(pal[k])] = 0
           THEN pickBestUnused(k + 1, k, score, item, pal, alg, rColors, rWeights, usage, rem)
           ELSE pickBestUnused(k + 1, bestIdx, bestScore, item, pal, alg, rColors, rWeights,
                               usage, rem)

RECURSIVE pickBestLast(_, _, _, _, _, _, _, _, _, _)
\* a variant in which a candidate that equals the best score replaces it
pickBestLast(k, bestIdx, bestScore, item, pal, alg, rColors, rWeights, usage, rem) ==
  IF k > Len(pal) THEN bestIdx
  ELSE LET score == itemFitScore(pal[k], item.name, getCatalogRole(item.name),
                                 getCatalogLightnessRange(item.name), rColors, rWeights,
                                 item.weight, alg, pal, usage, rem, item.tendency)
       IN  IF score >= bestScore
           THEN pickBestLast(k + 1, k, score, item, pal, alg, rColors, rWeights, usage, rem)
           ELSE pickBestLast(k + 1, bestIdx, bestScore, item, pal, alg, rColors, rWeights,
                             usage, rem)

RECURSIVE pickBest(_, _, _, _, _, _, _, _, _, _)
\* the `for (const candidate of palette)` loop: the index of bestColor, 0 for null
pickBest(k, bestIdx, bestScore, item, pal, alg, rColors, rWeights, usage, rem) ==
  IF k > Len(pal) THEN bestIdx
  ELSE LET score == itemFitScore(pal[k], item.name, getCatalogRole(item.name),
                                 getCatalogLightnessRange(item.name), rColors, rWeights,
                                 item.weight, alg, pal, usage, rem, item.tendency)
       IN  IF score > bestScore
           THEN pickBest(k + 1, k, score, item, pal, alg, rColors, rWeights, usage, rem)
           ELSE pickBest(k + 1, bestIdx, bestScore, item, pal, alg, rColors, rWeights,
                         usage, rem)

RoomBegin ==
  /\ pc = "ready"
  /\ fn' = "room"
  /\ \E a \in FillAlgorithms : algorithm' = a
  /\ result' = items
  /\ IF Len(palette) = 0
     THEN /\ pc' = "done"
          /\ UNCHANGED <<roomColors, roomWeights, usageCount, order, remaining>>
     ELSE /\ pc' = "room"
          /\ roomColors' = fixedColors(items)
          /\ roomWeights' = fixedWeights(items)
          /\ usageCount' = initialUsage(palette, fixedColors(items))
          /\ order' = unassignedIndices(items)
          /\ remaining' = Len(unassignedFrom(items, 1))
  /\ UNCHANGED <<items, palette, scoreVars, harmonyVars, tabVars>>

RoomStep ==
  /\ pc = "room"
  /\ order # <<>>
  /\ LET idx  == Head(order)
         item == result[idx]
     IN  \E best \in {pickBest(1, 0, NegInfinity, item, palette, algorithm, roomColors,
                                roomWeights, usageCount, remaining)} :
         IF best # 0
         THEN /\ roomColors' = Append(roomColors, palette[best])
              /\ roomWeights' = Append(roomWeights, item.weight)
              /\ usageCount' = [usageCount EXCEPT ![hex(palette[best])] = @ + 1]
              /\ result' = [result EXCEPT ![idx].color = palette[best]]
         ELSE UNCHANGED <<roomColors, roomWeights, usageCount, result>>
  /\ order' = Tail(order)
  /\ remaining' = remaining - 1
  /\ UNCHANGED <<items, palette, fn, algorithm, pc, scoreVars, harmonyVars, tabVars>>

RoomReturn ==
  /\ pc = "room"
  /\ order = <<>>
  /\ pc' = "done"
  /\ UNCHANGED <<items, palette, fn, algorithm, result, roomColors, roomWeights,
                 usageCount, order, remaining, scoreVars, harmonyVars, tabVars>>

\* ------------------------------------------------------------------------
\* autoFillRoom on a room of five unassigned items and a palette of six colours
\* ------------------------------------------------------------------------

Cream   == lch(9000, 400, 9000)
Pearl   == lch(8600, 300, 27000)
Oxblood == lch(2000, 4500, 2000)
Forest  == lch(2000, 4500, 14000)
Navy    == lch(2000, 4500, 28000)
Plum    == lch(2000, 4500, 32000)
Sand    == lch(8000, 1500, 8000)
Mist    == lch(8400, 800, 22000)
Blush   == lch(8800, 1000, 1000)
Mint    == lch(9200, 1200, 16000)

\* two light near-neutrals with four dark saturated colours (in two orders), six
\* light colours, and a mixed palette; every palette has six different hues
RoomPalettes ==
  { <<Cream, Pearl, Oxblood, Forest, Navy, Plum>>,
    <<Plum, Navy, Forest, Oxblood, Pearl, Cream>>,
    <<Cream, Pearl, Sand, Mist, Blush, Mint>>,
    <<Terracotta, Sage, Mint, Cream, Navy, Oxblood>> }

RoomKinds ==
  { [name |-> "Main Wall", weight |-> 30, tendency |-> "any"],
    [name |-> "Doors",     weight |-> 10, tendency |-> "any"] }

RoomSize == 5

DiversityInit ==
  /\ items \in {[i \in 1..RoomSize |-> mkItem(i, ks[i], NoColor)] :
                  ks \in [1..RoomSize -> RoomKinds]}
  /\ palette \in RoomPalettes
  /\ FillReady
  /\ ScoreIdle
  /\ HarmonyIdle
  /\ TabIdle

DiversityNext == RoomBegin \/ RoomStep \/ RoomReturn

SpecDiversity == DiversityInit /\ [][DiversityNext]_vars

\* ------------------------------------------------------------------------
\* autoFillWardrobe as one step
\* ------------------------------------------------------------------------

WardrobeFill ==
  /\ pc = "ready"
  /\ fn' = "wardrobe"
  /\ result' = autoFillWardrobe(items, palette)
  /\ pc' = "done"
  /\ UNCHANGED <<items, palette, algorithm, roomColors, roomWeights, usageCount,
                 order, remaining, scoreVars, harmonyVars, tabVars>>

Next == RoomBegin \/ RoomStep \/ RoomReturn \/ WardrobeFill

Spec == Init /\ [][Next]_vars

\* ------------------------------------------------------------------------
\* computeHarmonyScore on its own
\* ------------------------------------------------------------------------

MaxScoreColors == 3

Black == lch(1500, 0, 0)
Teal  == lch(5000, 4500, 20000)

ScoreColors == {OffWhite, Terracotta, Teal, Black}

\* weights in tenths: 0.3 and 10
ScoreWeights == {3, 40}

ScorePalettes == {<<>>, <<Terracotta, Sage>>}

\* no weights, one weight per colour, or a list that is one too long
WeightLists(n) ==
  {NoWeights} \cup [1..n -> ScoreWeights] \cup {[k \in 1..(n + 1) |-> 10]}

ScoreInit ==
  /\ sColors \in SeqsUpTo(ScoreColors, MaxScoreColors)
  /\ sWeights \in WeightLists(Len(sColors))
  /\ sPalette \in ScorePalettes
  /\ sAlgorithm = "surface-area"
  /\ sScore = -1
  /\ sOp = "none"
  /\ sColor = NoColor
  /\ sDelta = 0
  /\ sCandWeight = NoWeight
  /\ sCandidates = <<>>
  /\ sLight = NoLight
  /\ sBonus = NoBonus
  /\ sOther = <<>>
  /\ sCompare = NoCompare
  /\ items = <<>>
  /\ palette = <<>>
  /\ FillReady
  /\ HarmonyIdle
  /\ TabIdle

Score(a) ==
  /\ sScore = -1
  /\ sAlgorithm' = a
  /\ sScore' = computeHarmonyScore(sColors, a, sPalette, sWeights)
  /\ sOp' = "computeHarmonyScore"
  /\ UNCHANGED <<scoreInputs, sColor, sDelta, sCandWeight, sCandidates, sLight, sBonus, sideVars,
                 fillVars, harmonyVars, tabVars>>

ScoreNext == \E a \in Algorithms : Score(a)

SpecScore == ScoreInit /\ [][ScoreNext]_vars

\* ------------------------------------------------------------------------
\* itemScoreDelta on its own: the colours of two to four items of a room
\* ------------------------------------------------------------------------

DeltaColors == {OffWhite, Terracotta, Teal}

DeltaLengths == 2..4

DeltaInit ==
  /\ \E n \in DeltaLengths :
       /\ sColors \in [1..n -> DeltaColors]
       /\ sWeights \in {NoWeights} \cup [1..n -> ScoreWeights]
  /\ sPalette = <<Terracotta, Sage>>
  /\ sAlgorithm = "surface-area"
  /\ sScore = -1
  /\ sOp = "none"
  /\ sColor = NoColor
  /\ sDelta = 0
  /\ sCandWeight = NoWeight
  /\ sCandidates = <<>>
  /\ sLight = NoLight
  /\ sBonus = NoBonus
  /\ sOther = <<>>
  /\ sCompare = NoCompare
  /\ items = <<>>
  /\ palette = <<>>
  /\ FillReady
  /\ HarmonyIdle
  /\ TabIdle

Delta(color, a) ==
  /\ sOp = "none"
  /\ sColor' = color
  /\ sAlgorithm' = a
  /\ sDelta' = itemScoreDelta(color, sColors, a, sPalette, sWeights)
  /\ sOp' = "itemScoreDelta"
  /\ UNCHANGED <<scoreInputs, sScore, sCandWeight, sCandidates, sLight, sBonus, sideVars, fillVars,
                 harmonyVars, tabVars>>

DeltaNext == \E color \in DeltaColors, a \in Algorithms : Delta(color, a)

SpecDelta == DeltaInit /\ [][DeltaNext]_vars

\* ------------------------------------------------------------------------
\* lightnessReasonablenessScore on its own: two or three colours, and the same
\* colours with one common lightness
\* ------------------------------------------------------------------------

LightnessValues == {1500, 3000, 4500, 5000, 5001, 9500}

CommonValues == {1500, 5000, 9700}

LightLengths == 2..3

\* colors with every lightness replaced by l
withLightness(colors, l) == [i \in 1..Len(colors) |-> lch(l, colors[i].C, colors[i].H)]

LightnessInit ==
  /\ \E n \in LightLengths :
       sColors \in {[i \in 1..n |-> lch(ls[i], 3000 + 500 * i, 4000 * i)] :
                      ls \in [1..n -> LightnessValues]}
  /\ sWeights = NoWeights
  /\ sPalette = <<>>
  /\ sAlgorithm = "surface-area"
  /\ sScore = -1
  /\ sOp = "none"
  /\ sColor = NoColor
  /\ sDelta = 0
  /\ sCandWeight = NoWeight
  /\ sCandidates = <<>>
  /\ sLight = NoLight
  /\ sBonus = NoBonus
  /\ sOther = <<>>
  /\ sCompare = NoCompare
  /\ items = <<>>
  /\ palette = <<>>
  /\ FillReady
  /\ HarmonyIdle
  /\ TabIdle

Flatten(l) ==
  /\ sOp = "none"
  /\ sLight' = [common |-> l,
                spread |-> lightnessReasonablenessScore(sColors),
                flat   |-> lightnessReasonablenessScore(withLightness(sColors, l))]
  /\ sOp' = "lightnessReasonablenessScore"
  /\ UNCHANGED <<scoreInputs, sAlgorithm, sScore, sColor, sDelta, sCandWeight,
                 sCandidates, sBonus, sideVars, fillVars, harmonyVars, tabVars>>

LightnessNext == \E l \in CommonValues : Flatten(l)

SpecLightness == LightnessInit /\ [][LightnessNext]_vars

\* ------------------------------------------------------------------------
\* scoreCandidates on its own: the picker of one item, beside up to two others
\* ------------------------------------------------------------------------

OtherLengths == 0..2

CandidateWeights == {NoWeight, 40}

CandidatesInit ==
  /\ \E n \in OtherLengths :
       /\ sColors \in [1..n -> DeltaColors]
       /\ sWeights \in {NoWeights} \cup [1..n -> ScoreWeights]
  /\ sPalette \in ScorePalettes
  /\ sCandWeight \in CandidateWeights
  /\ sAlgorithm = "surface-area"
  /\ sScore = -1
  /\ sOp = "none"
  /\ sColor = NoColor
  /\ sDelta = 0
  /\ sCandidates = <<>>
  /\ sLight = NoLight
  /\ sBonus = NoBonus
  /\ sOther = <<>>
  /\ sCompare = NoCompare
  /\ items = <<>>
  /\ palette = <<>>
  /\ FillReady
  /\ HarmonyIdle
  /\ TabIdle

Candidates(a) ==
  /\ sOp = "none"
  /\ sAlgorithm' = a
  /\ sCandidates' = scoreCandidates(sPalette, sColors, a, sWeights, sCandWeight)
  /\ sOp' = "scoreCandidates"
  /\ UNCHANGED <<scoreInputs, sScore, sColor, sDelta, sCandWeight, sLight, sBonus, sideVars, fillVars,
                 harmonyVars, tabVars>>

CandidatesNext == \E a \in Algorithms : Candidates(a)

SpecCandidates == CandidatesInit /\ [][CandidatesNext]_vars

\* ------------------------------------------------------------------------
\* generateHarmony, called again and again with one (lockedColors, mode,
\* count, batchSeed) and any variation
\* ------------------------------------------------------------------------

MaxCalls == 2

White == lch(10000, 0, 0)

\* lockedColors: none, one, or two
HarmonyBases == {<<>>, <<White>>, <<Terracotta, White>>}

Counts == {-1, 0, 1, 2}

Variations == {0, 1}

BatchSeeds == {11, 1700000000}

HarmonyInit ==
  /\ hBases \in HarmonyBases
  /\ hMode \in HarmonyModes
  /\ hCount \in Counts
  /\ hBatchSeed \in BatchSeeds
  /\ hOut = [v \in Variations |-> <<>>]
  /\ hCalled = {}
  /\ hLast = 0
  /\ hUsed = <<>>
  /\ hRng = Unseeded
  /\ hCalls = 0
  /\ hTwin = NoTwin
  /\ items = <<>>
  /\ palette = <<>>
  /\ FillReady
  /\ ScoreIdle
  /\ TabIdle

Generate(v) ==
  /\ hCalls < MaxCalls
  /\ \E r \in {generateHarmony(hBases, hMode, hCount, v, hBatchSeed)} :
       /\ hOut' = [hOut EXCEPT ![v] = r.colors]
       /\ hUsed' = r.bases
       /\ hRng' = r.rng
  /\ hCalled' = hCalled \cup {v}
  /\ hLast' = v
  /\ hCalls' = hCalls + 1
  /\ UNCHANGED <<harmonyInputs, hTwin, fillVars, scoreVars, tabVars>>

HarmonyNext == \E v \in Variations : Generate(v)

SpecHarmony == HarmonyInit /\ [][HarmonyNext]_vars

\* ------------------------------------------------------------------------
\* Properties of the assignment engines
\* ------------------------------------------------------------------------

returned(f) == fn = f /\ pc = "done"

inPalette(c) == \E k \in 1..Len(palette) : c = palette[k]

\* every item that was unassigned on input has a palette colour in result
allFilled ==
  /\ Len(result) = Len(items)
  /\ \A i \in 1..Len(items) : isUnassigned(items[i]) => inPalette(result[i].color)

\* C1: when autoFillRoom returns from a call with a non-empty palette, every item
\* whose colour was null on input has a colour, and that colour is an element of
\* the palette.
C1_RoomFillsEveryUnassigned ==
  (returned("room") /\ Len(palette) > 0) => allFilled

\* autoFillRoom has returned after filling a catalog hit and a catalog miss from a
\* palette with fewer colours than there are unassigned items
C1_Witness ==
  /\ returned("room") /\ Len(palette) = 1 /\ Len(items) = 2
  /\ \A i \in 1..2 : isUnassigned(items[i]) /\ inPalette(result[i].color)
  /\ catalogHit(items[1].name) # {} /\ catalogHit(items[2].name) = {}

\* C2: when autoFillWardrobe returns from a call with a non-empty palette, every
\* item whose colour was null on input has a palette colour, also when there are
\* more core/accent items than chromatic colours.
C2_WardrobeFillsEveryUnassigned ==
  (returned("wardrobe") /\ Len(palette) > 0) => allFilled

\* the fields a fill never writes
sameButColor(a, b) ==
  a.id = b.id /\ a.name = b.name /\ a.weight = b.weight /\ a.tendency = b.tendency

\* result against the input: same length and order, only null colours replaced
framePreserved ==
  /\ Len(result) = Len(items)
  /\ \A i \in 1..Len(items) :
       /\ sameButColor(result[i], items[i])
       /\ isAssigned(items[i]) => result[i].color = items[i].color

\* C3: at every point of a fill (room or wardrobe) the output list has the length
\* and order of the input, every item keeps id, name, weight and tendency, every
\* item that had a colour keeps exactly that colour, and no step changes the
\* input list or the palette.
C3_AssignedItemsUntouched ==
  /\ [](fn # "none" => framePreserved)
  /\ [][items' = items /\ palette' = palette]_vars

\* a wardrobe fill has returned a list in which a pinned item sits beside an item
\* it has just coloured
C3_Witness ==
  /\ returned("wardrobe") /\ Len(items) = 2
  /\ isAssigned(items[1]) /\ isUnassigned(items[2])
  /\ isAssigned(result[2]) /\ result[2].color # items[1].color

allAssigned(list) == \A i \in 1..Len(list) : isAssigned(list[i])

\* C4: a fill (room under any algorithm, or wardrobe; any palette) of a list in
\* which every item already has a colour returns that list unchanged.
C4_AllAssignedUnchanged ==
  (pc = "done" /\ allAssigned(items)) => result = items

\* autoFillRoom has returned from a call on two pinned items and a palette that
\* does not hold their colour
C4_Witness ==
  /\ returned("room") /\ algorithm = "minimal-palette"
  /\ Len(items) = 2 /\ allAssigned(items)
  /\ Len(palette) > 0 /\ \A i \in 1..2 : ~ inPalette(items[i].color)

\* C5: with an empty palette a fill (room or wardrobe) returns its input list
\* unchanged, whatever the items are.
C5_EmptyPaletteUnchanged ==
  (pc = "done" /\ Len(palette) = 0) => result = items

\* autoFillWardrobe has returned from a call with an empty palette and a list
\* that holds an unassigned item
C5_Witness ==
  /\ returned("wardrobe") /\ palette = <<>>
  /\ \E i \in 1..Len(items) : isUnassigned(items[i])

\* ------------------------------------------------------------------------
\* Properties of the harmony generator
\* ------------------------------------------------------------------------

\* the seed generateHarmony gives mulberry32 for variation v
seedOf(v) == hBatchSeed + v * 7919

\* the number of rng() calls of one generateHarmony call with count > 0
drawsOf(bases, mode, count) ==
  (IF Len(bases) = 0 THEN 3 ELSE 0)
    + (IF mode = "delta-e-smart" THEN GridSize + 2 ELSE 3 * count)

C7_VariationsDiffer ==
  (hBases # <<>> /\ hCount >= 1 /\ {0, 1} \subseteq hCalled) => hOut[0] # hOut[1]

\* C8: with count <= 0 every call returns the empty sequence, whatever the mode
\* and the locked colours, and creates no generator.
C8_NonPositiveCountEmpty ==
  hCount <= 0 => (hRng = Unseeded /\ \A v \in hCalled : hOut[v] = <<>>)

\* delta-e-smart was called with count 0 and with locked colours
C8_Witness ==
  /\ hCount = 0 /\ hCalls > 0 /\ hLast \in hCalled
  /\ hMode = "delta-e-smart" /\ hBases # <<>>
  /\ hOut[hLast] = <<>>

hueRotation(mode) == mode # "delta-e-smart"

\* C9: a call with no locked colour and count > 0 generates from exactly one
\* base, of lightness 40..70, chroma 15..55 and hue in [0, 360), made from the
\* first three values of the seeded generator; it returns what the mode generates
\* from that base: at least one colour, and count colours in the four
\* hue-rotation modes.
C9_EmptyBasesSynthesizeOne ==
  (hBases = <<>> /\ hCount > 0 /\ hCalled # {}) =>
    /\ Len(hUsed) = 1
    /\ hUsed[1].L >= 4000 /\ hUsed[1].L <= 7000
    /\ hUsed[1].C >= 1500 /\ hUsed[1].C <= 5500
    /\ hUsed[1].H >= 0 /\ hUsed[1].H < 36000
    /\ hOut[hLast] = generateFromBase(hUsed, hMode, hCount,
                                      advance(toInt32(seedOf(hLast)), 3)).colors
    /\ \A v \in hCalled :
         /\ Len(hOut[v]) > 0
         /\ hueRotation(hMode) => Len(hOut[v]) = hCount

\* triadic was called with no locked colour and count 2
C9_Witness ==
  /\ hBases = <<>> /\ hCount = 2 /\ hMode = "triadic"
  /\ hLast \in hCalled /\ Len(hOut[hLast]) = 2 /\ Len(hUsed) = 1

\* ------------------------------------------------------------------------
\* Properties of the cohesion scorer
\* ------------------------------------------------------------------------

\* C10: computeHarmonyScore returns an integer from 0 to 100, and 100 for a list
\* of fewer than two colours, whatever the algorithm, the palette and the weights.
C10_ScoreRange ==
  sScore # -1 =>
    /\ sScore \in 0..100
    /\ Len(sColors) < 2 => sScore = 100

\* one heavy colour was scored against a palette
C10_Witness ==
  /\ sScore = 100 /\ sColors = <<Teal>> /\ sWeights = <<40>>
  /\ sPalette # <<>> /\ sAlgorithm = "minimal-palette"

\* what is left of allColors and of its weights when color is taken out
sWithout == withoutColor(sColors, sColor)

sWeightsWithout == weightsWithoutAll(sColors, sColor, sWeights)

\* C11: itemScoreDelta(color, allColors, ...) is the score of allColors minus the
\* score of allColors without that colour, both with the same algorithm and
\* palette and with the weights of the colours scored, and 0 when fewer than two
\* colours are left.
C11_DeltaIsScoreDifference ==
  sOp = "itemScoreDelta" =>
    sDelta = IF Len(sWithout) < 2 THEN 0
             ELSE computeHarmonyScore(sColors, sAlgorithm, sPalette, sWeights)
                    - computeHarmonyScore(sWithout, sAlgorithm, sPalette, sWeightsWithout)

\* the scores of the candidates scoreCandidates evaluated
sEvaluated ==
  scoresOf(candidateColors(sPalette), sPalette, sColors, sAlgorithm, sWeights, sCandWeight)

\* the highest of some scores
bestOf(scores) ==
  CHOOSE b \in {scores[k] : k \in 1..Len(scores)} : \A k \in 1..Len(scores) : b >= scores[k]

tierRank(t) == CASE t = "great" -> 1 [] t = "ok" -> 2 [] t = "avoid" -> 3

\* the tiers of the candidates are those of their scores relative to best
tiersRelativeTo(candidates, best) ==
  /\ \A p \in 1..Len(candidates) :
       /\ candidates[p].tier = "great" <=> candidates[p].score >= best - 5
       /\ candidates[p].tier = "ok" <=>
            (candidates[p].score >= best - 20 /\ candidates[p].score < best - 5)
       /\ candidates[p].tier \in {"great", "ok", "avoid"}
  /\ \A p \in 1..(Len(candidates) - 1) :
       /\ candidates[p].score >= candidates[p + 1].score
       /\ tierRank(candidates[p].tier) <= tierRank(candidates[p + 1].tier)
  /\ candidates[1].tier = "great"
  /\ candidates[1].score = best

\* C12: every returned candidate is great iff its score is at least the best
\* evaluated score minus 5, ok iff it is below that and at least the best minus
\* 20, avoid otherwise; the list is sorted by score descending, the first
\* candidate is great, and the tiers appear in the order great, ok, avoid.
C12_TiersRelativeToBest ==
  sOp = "scoreCandidates" =>
    /\ Len(sCandidates) = Len(sEvaluated)
    /\ tiersRelativeTo(sCandidates, bestOf(sEvaluated))

\* a room colour is given, and all three tiers occur among the candidates
C12_Witness ==
  /\ sOp = "scoreCandidates" /\ Len(sColors) = 2 /\ sWeights # NoWeights
  /\ \A t \in {"great", "ok", "avoid"} :
       \E p \in 1..Len(sCandidates) : sCandidates[p].tier = t

\* the items autoFillRoom was given without a colour
unassignedSet == {i \in 1..Len(items) : ~isAssigned(items[i])}

distinctHues(pal) == Cardinality({hueOf(pal[k]) : k \in 1..Len(pal)})

\* the colours the returned list gives the items that had none
filledColors == {hex(result[i].color) : i \in unassignedSet} \ {hex(NoColor)}

\* C13: autoFillRoom with the surface-area algorithm, at least five unassigned
\* items and a palette that is larger than the number of unassigned items and
\* has at least five different hues gives the filled items more than two
\* different colours.
C13_DiversityPressure ==
  ( /\ returned("room") /\ algorithm = "surface-area"
    /\ Cardinality(unassignedSet) >= 5
    /\ Len(palette) > Cardinality(unassignedSet)
    /\ distinctHues(palette) >= 5 )
  => Cardinality(filledColors) > 2

\* the lightness values of sColors, sorted
sSorted == SortAsc([i \in 1..Len(sColors) |-> lightnessOf(sColors[i])])

spreadOut == sSorted[1] # sSorted[Len(sSorted)]

\* no two neighbours of the sorted lightness values are more than 20 apart
noHole == \A i \in 1..(Len(sSorted) - 1) : sSorted[i + 1] - sSorted[i] <= 2000

waiting == {order[k] : k \in 1..Len(order)}

\* the unassigned items the loop is done with
processed == unassignedSet \ waiting

timesIn(colors, c) == Cardinality({k \in 1..Len(colors) : colors[k] = c})

\* C15: when autoFillRoom scores an item, the items still waiting are in order
\* of non-increasing weight, every unassigned item of higher weight has its
\* colour and no unassigned item of lower weight has one, and the running room
\* colours are those of the pre-assigned items and of the items done, each
\* palette colour's usage counter being the number of times it is among them.
C15_HeaviestFirst ==
  (fn = "room" /\ pc = "room" /\ order # <<>>) =>
    /\ \A k \in 1..(Len(order) - 1) : items[order[k]].weight >= items[order[k + 1]].weight
    /\ \A j \in unassignedSet :
         /\ items[j].weight > items[Head(order)].weight =>
              (j \in processed /\ result[j].color # NoColor)
         /\ items[j].weight < items[Head(order)].weight =>
              (j \in waiting /\ result[j].color = NoColor)
    /\ Len(roomColors) = Len(items) - Cardinality(waiting)
    /\ \A i \in (1..Len(items)) \ waiting : timesIn(roomColors, result[i].color) =
         Cardinality({j \in (1..Len(items)) \ waiting : result[j].color = result[i].color})
    /\ \A k \in 1..Len(palette) :
         usageCount[hex(palette[k])] = timesIn(roomColors, palette[k])

\* the lighter of two unassigned items comes first in the list and is scored
\* second, beside a colour the heavier one was given
C15_Witness ==
  /\ fn = "room" /\ pc = "room" /\ Len(items) = 2 /\ order = <<1>>
  /\ ~isAssigned(items[1]) /\ ~isAssigned(items[2])
  /\ items[1].weight < items[2].weight
  /\ roomColors = <<result[2].color>> /\ result[2].color # NoColor

\* ------------------------------------------------------------------------
\* autoFillWardrobe on wardrobes of one to three garments
\* ------------------------------------------------------------------------

WardrobeKinds ==
  { [name |-> "Belt",      weight |-> 10, tendency |-> "any"],
    [name |-> "Belt 2",    weight |-> 10, tendency |-> "any"],
    [name |-> "T-Shirt",   weight |-> 60, tendency |-> "any"],
    [name |-> "T-Shirt 2", weight |-> 60, tendency |-> "any"],
    [name |-> "T-Shirt 3", weight |-> 60, tendency |-> "any"],
    [name |-> "Sweater",   weight |-> 70, tendency |-> "any"],
    [name |-> "Scarf",     weight |-> 30, tendency |-> "any"],
    [name |-> "Cape",      weight |-> 50, tendency |-> "any"] }

WardrobeSizes == 1..3

WardrobeLists ==
  { [i \in 1..Len(ks) |-> mkItem(i, ks[i][1], ks[i][2])] :
      ks \in UNION {[1..n -> WardrobeKinds \X PresetColors] : n \in WardrobeSizes} }

\* palettes of different colours: none, neutrals only, chromatic colours only,
\* and mixed ones with fewer or more neutrals than a wardrobe has foundation items
WardrobePalettes ==
  { <<>>,
    <<Cream, Pearl>>,
    <<Terracotta, Teal>>,
    <<Cream, Terracotta>>,
    <<Cream, Terracotta, Teal>>,
    <<Black, Cream, Terracotta, Teal>>,
    <<Black, Pearl, Cream, Oxblood, Teal, Sage>> }

WardrobeInit ==
  /\ items \in WardrobeLists
  /\ palette \in WardrobePalettes
  /\ FillReady
  /\ ScoreIdle
  /\ HarmonyIdle
  /\ TabIdle

WardrobeNext == WardrobeFill

SpecWardrobe == WardrobeInit /\ [][WardrobeNext]_vars

\* the role autoFillWardrobe gives the item at index i
roleOf(i) == wardrobeRole(baseName(items[i].name))

\* the unassigned items of the call, by lane
foundationSet == {i \in 1..Len(items) : isUnassigned(items[i]) /\ roleOf(i) = "foundation"}

accentSet == {i \in 1..Len(items) : isUnassigned(items[i]) /\ roleOf(i) # "foundation"}

\* C16: in the list autoFillWardrobe returns, no two core/accent items that were
\* unassigned carry the same palette entry, whatever the palette (the palettes
\* have no entry twice, so the same colour is the same entry).
C16_CoreAccentDeplete ==
  returned("wardrobe") =>
    \A i \in accentSet : \A j \in accentSet :
      (i # j /\ result[i].color # NoColor) => result[i].color # result[j].color

\* the neutral colours of the palette, in palette order
neutralOf(pal) == SelectSeq(pal, isNeutral12)

\* C17: in the list autoFillWardrobe returns, every foundation item that was
\* unassigned carries the neutral palette colour whose lightness is nearest to
\* its target lightness (the first such colour in palette order) when the
\* palette has a neutral colour, and so never a chromatic colour when the
\* palette has both neutral and chromatic colours.
C17_FoundationNearestNeutral ==
  (returned("wardrobe") /\ neutralOf(palette) # <<>>) =>
    \A i \in foundationSet :
      /\ result[i].color = neutralOf(palette)[nearestIdx(neutralOf(palette), targetL(items, i))]
      /\ ~isChromatic12(result[i].color)

\* the unassigned items of the same garment type as the item at index i
sameType(i) ==
  {j \in 1..Len(items) :
     isUnassigned(items[j]) /\ baseName(items[j].name) = baseName(items[i].name)}

\* C18: the unassigned items of one garment type target lightness values spread
\* evenly over the type's range: with n >= 2 of them, the one with k of them
\* before it in the list targets minL + k/(n-1) * (maxL - minL), the first minL
\* and the last maxL; a single one targets the midpoint (minL + maxL) / 2.
C18_TargetsSpreadEvenly ==
  returned("wardrobe") =>
    \A i \in foundationSet \cup accentSet :
      LET n    == Cardinality(sameType(i))
          k    == Cardinality({j \in sameType(i) : j < i})
          minL == 100 * wardrobeRange(baseName(items[i].name))[1]
          maxL == 100 * wardrobeRange(baseName(items[i].name))[2]
      IN  /\ n >= 2 => (n - 1) * (targetL(items, i) - minL) = k * (maxL - minL)
          /\ (n >= 2 /\ k = 0) => targetL(items, i) = minL
          /\ (n >= 2 /\ k = n - 1) => targetL(items, i) = maxL
          /\ n = 1 => 2 * targetL(items, i) = minL + maxL

\* three unassigned t-shirts target 15, 53.5 and 92 and were given the dark, the
\* middle and the light chromatic colour of the palette
C18_Witness ==
  /\ returned("wardrobe") /\ Len(items) = 3
  /\ \A i \in 1..3 : isUnassigned(items[i]) /\ baseName(items[i].name) = "T-Shirt"
  /\ targetL(items, 1) = 1500 /\ targetL(items, 2) = 5350 /\ targetL(items, 3) = 9200
  /\ palette = <<Black, Pearl, Cream, Oxblood, Teal, Sage>>
  /\ result[1].color = Oxblood /\ result[2].color = Teal /\ result[3].color = Sage

\* ------------------------------------------------------------------------
\* The diversity bonus of itemFitScore on its own
\* ------------------------------------------------------------------------

\* usageCount.get(candidate.hex()) || 0
BonusUses == 0..4

\* palette.length
BonusPaletteSizes == 1..6

\* totalUnassigned: autoFillRoom's `remaining`, the current item included
BonusUnassigned == 1..6

BonusInit ==
  /\ items = <<>>
  /\ palette = <<>>
  /\ FillReady
  /\ ScoreIdle
  /\ HarmonyIdle
  /\ TabIdle

Bonus(uses, paletteSize, totalUnassigned) ==
  /\ sBonus' = [uses |-> uses, paletteSize |-> paletteSize,
                totalUnassigned |-> totalUnassigned,
                value |-> diversityBonus(uses, paletteSize, totalUnassigned)]
  /\ sOp' = "diversityBonus"
  /\ UNCHANGED <<scoreInputs, sAlgorithm, sScore, sColor, sDelta, sCandWeight,
                 sCandidates, sLight, sideVars, fillVars, harmonyVars, tabVars>>

BonusNext ==
  \E uses \in BonusUses : \E paletteSize \in BonusPaletteSizes :
    \E totalUnassigned \in BonusUnassigned : Bonus(uses, paletteSize, totalUnassigned)

SpecBonus == BonusInit /\ [][BonusNext]_vars

\* the palette is larger than the number of unassigned items left
pushed(b) == b.paletteSize > b.totalUnassigned

\* two diversity bonuses computed one after the other
twoBonuses == sOp = "diversityBonus" /\ sOp' = "diversityBonus"

\* C19: of two diversity bonuses for the same palette size and number of items
\* left, the one for more uses is not the larger one, the one for one use is
\* strictly smaller than the one for no use, and a bonus for two or more uses
\* is negative; of two bonuses for the same number of uses, one with the palette
\* larger than the number of items left and one without, the first is strictly
\* smaller when the colour was used and the same when it was not.
C19_BonusFallsWithUse ==
  [][twoBonuses =>
       /\ (sBonus.paletteSize = sBonus'.paletteSize
              /\ sBonus.totalUnassigned = sBonus'.totalUnassigned) =>
            /\ sBonus.uses <= sBonus'.uses => sBonus.value >= sBonus'.value
            /\ (sBonus.uses = 0 /\ sBonus'.uses = 1) => sBonus.value > sBonus'.value
       /\ sBonus'.uses >= 2 => sBonus'.value < 0
       /\ (sBonus.uses = sBonus'.uses /\ ~pushed(sBonus) /\ pushed(sBonus')) =>
            IF sBonus.uses > 0 THEN sBonus'.value < sBonus.value
            ELSE sBonus'.value = sBonus.value]_vars

\* a colour used twice, scored with six palette colours for five items left
C19_Witness ==
  /\ sOp = "diversityBonus"
  /\ sBonus = [uses |-> 2, paletteSize |-> 6, totalUnassigned |-> 5, value |-> -15]

\* the distance of two hues around the circle, in hundredths of a degree
hueDistance(h1, h2) ==
  IF Abs(h1 - h2) <= 18000 THEN Abs(h1 - h2) ELSE 36000 - Abs(h1 - h2)

\* the colours the last call of generateHarmony returned
lastOut == hOut[hLast]

\* the base colour the output at index i (from 1) was derived from
baseUsed(i) == hUsed[((i - 1) % Len(hUsed)) + 1]

\* the last call was a complementary one that had colours to return
complementaryCall == hCalls > 0 /\ hMode = "complementary" /\ hCount > 0

hueCentre(i) ==
  IF baseUsed(i).C = 0 THEN 0
  ELSE IF ((i - 1) % (2 * Len(hUsed))) < Len(hUsed)
       THEN (hueOf(baseUsed(i)) + 18000) % 36000
       ELSE hueOf(baseUsed(i))

SmartCounts == {3, 5}

SmartSeeds == {11, 2024, 1700000000}

SmartInit ==
  /\ hBases \in HarmonyBases
  /\ hMode = "delta-e-smart"
  /\ hCount \in SmartCounts
  /\ hBatchSeed \in SmartSeeds
  /\ hOut = [v \in Variations |-> <<>>]
  /\ hCalled = {}
  /\ hLast = 0
  /\ hUsed = <<>>
  /\ hRng = Unseeded
  /\ hCalls = 0
  /\ hTwin = NoTwin
  /\ items = <<>>
  /\ palette = <<>>
  /\ FillReady
  /\ ScoreIdle
  /\ TabIdle

SpecSmart == SmartInit /\ [][HarmonyNext]_vars

\* the last call was a delta-e-smart one that had colours to return
smartCall == hCalls > 0 /\ hMode = "delta-e-smart" /\ hCount > 0

\* 10 + rng() * 10 in hundredths, rng() being the call that left the state rng
minDistAt(rng) == 1000 + scaled(output(rng), 1000, 0)

\* whether some returned colour is nearer than d to the grid candidate g
crowded(g, d) == \E p \in 1..Len(lastOut) : deltaE(Grid[g], lastOut[p]) < d

ClusterHues == {0, 1000, 9000, 17000, 18000, 19000, 35000}

ClusterLengths == 2..3

TurnAngles == {9000, 18000}

\* a saturated mid-tone of hue h
ofHue(h) == lch(5000, 4000, h)

turned(colors, angle) == [i \in 1..Len(colors) |-> rotateHue(colors[i], angle)]

ClustersInit ==
  /\ sColors \in {[i \in 1..Len(hs) |-> ofHue(hs[i])] :
                    hs \in UNION {[1..n -> ClusterHues] : n \in ClusterLengths}}
  /\ sWeights = NoWeights
  /\ sPalette = <<>>
  /\ sAlgorithm = "surface-area"
  /\ sScore = -1
  /\ sOp = "none"
  /\ sColor = NoColor
  /\ sDelta = 0
  /\ sCandWeight = NoWeight
  /\ sCandidates = <<>>
  /\ sLight = NoLight
  /\ sBonus = NoBonus
  /\ sOther = <<>>
  /\ sCompare = NoCompare
  /\ items = <<>>
  /\ palette = <<>>
  /\ FillReady
  /\ HarmonyIdle
  /\ TabIdle

\* getPaletteHueClusters, and hueCohesionScore without palette context, of
\* sColors and of sColors turned by angle
Turn(angle) ==
  /\ sOp = "none"
  /\ sOther' = turned(sColors, angle)
  /\ sCompare' = [left       |-> Len(getPaletteHueClusters(sColors)),
                  right      |-> Len(getPaletteHueClusters(turned(sColors, angle))),
                  leftScore  |-> hueCohesionScore(sColors, <<>>),
                  rightScore |-> hueCohesionScore(turned(sColors, angle), <<>>)]
  /\ sOp' = "getPaletteHueClusters"
  /\ UNCHANGED <<scoreInputs, sAlgorithm, sScore, sColor, sDelta, sCandWeight,
                 sCandidates, sLight, sBonus, fillVars, harmonyVars, tabVars>>

ClustersNext == \E angle \in TurnAngles : Turn(angle)

SpecClusters == ClustersInit /\ [][ClustersNext]_vars

\* every two hues of the list are less than 45 degrees apart around the circle
mutuallyClose(colors) ==
  \A i \in 1..Len(colors) : \A j \in 1..Len(colors) :
    hueDistance(hueOf(colors[i]), hueOf(colors[j])) < 4500

\* C22: hue clustering is circular: a list whose hues are mutually close,
\* across 0/360 too, is one cluster, and turning every hue of a list by the
\* same angle changes neither the number of clusters nor the hue score that
\* counts them.
C22_ClusteringCircular ==
  sOp = "getPaletteHueClusters" =>
    /\ mutuallyClose(sColors) => sCompare.left = 1
    /\ sCompare.left = sCompare.right
    /\ sCompare.leftScore = sCompare.rightScore

\* ------------------------------------------------------------------------
\* The hue sub-score of computeHarmonyScore, with and without the neutral
\* colours of the list
\* ------------------------------------------------------------------------

\* a light colour whose chroma is the threshold itself
Ivory == lch(9000, 800, 9000)

NeutralMix == {Black, Ivory, Teal, Terracotta}

MixLengths == 2..3

\* weights in tenths: 1 and 4
MixWeights == {10, 40}

\* the positions of colors whose chroma is above the threshold
aboveThreshold(colors) == {i \in 1..Len(colors) : colors[i].C > 800}

\* the entries of list at the positions of colors that are above the threshold
keptAbove(list, colors) ==
  LET kept == SelectSeq([i \in 1..Len(colors) |-> i], LAMBDA i : colors[i].C > 800)
  IN  [k \in 1..Len(kept) |-> list[kept[k]]]

\* the hue sub-score computeHarmonyScore computes for its arguments
hueSubScore(colors, pal, weights) ==
  hueCohesionScore(expandByWeights(colors, weights), getPaletteHueClusters(pal))

NeutralInit ==
  /\ \E n \in MixLengths :
       /\ sColors \in [1..n -> NeutralMix]
       /\ sWeights \in {NoWeights} \cup [1..n -> MixWeights]
  /\ sPalette \in ScorePalettes
  /\ sAlgorithm = "surface-area"
  /\ sScore = -1
  /\ sOp = "none"
  /\ sColor = NoColor
  /\ sDelta = 0
  /\ sCandWeight = NoWeight
  /\ sCandidates = <<>>
  /\ sLight = NoLight
  /\ sBonus = NoBonus
  /\ sOther = <<>>
  /\ sCompare = NoCompare
  /\ items = <<>>
  /\ palette = <<>>
  /\ FillReady
  /\ HarmonyIdle
  /\ TabIdle

\* the hue sub-score of sColors, and of sColors without the colours at or below
\* the threshold (each colour left keeps its weight)
DropNeutrals ==
  /\ sOp = "none"
  /\ sOther' = keptAbove(sColors, sColors)
  /\ sCompare' =
       [left  |-> hueSubScore(sColors, sPalette, sWeights),
        right |-> hueSubScore(keptAbove(sColors, sColors), sPalette,
                              IF sWeights = NoWeights THEN NoWeights
                              ELSE keptAbove(sWeights, sColors))]
  /\ sOp' = "hueCohesionScore"
  /\ UNCHANGED <<scoreInputs, sAlgorithm, sScore, sColor, sDelta, sCandWeight,
                 sCandidates, sLight, sBonus, fillVars, harmonyVars, tabVars>>

NeutralNext == DropNeutrals

SpecNeutral == NeutralInit /\ [][NeutralNext]_vars

\* the list computeHarmonyScore gives to its sub-scores
sScored == expandByWeights(sColors, sWeights)

totalRange(colors) ==
  LET sorted == SortAsc([i \in 1..Len(colors) |-> lightnessOf(colors[i])])
  IN  sorted[Len(sorted)] - sorted[1]

\* the lightness sub-score of sColors and that of another list of its size
Beside(other) ==
  /\ sOp = "none"
  /\ Len(other) = Len(sColors)
  /\ sOther' = other
  /\ sCompare' = [left  |-> lightnessReasonablenessScore(sColors),
                  right |-> lightnessReasonablenessScore(other)]
  /\ sOp' = "lightnessReasonablenessScore"
  /\ UNCHANGED <<scoreInputs, sAlgorithm, sScore, sColor, sDelta, sCandWeight,
                 sCandidates, sLight, sBonus, fillVars, harmonyVars, tabVars>>

RangeNext ==
  \E n \in LightLengths :
    \E other \in {[i \in 1..n |-> lch(ls[i], 3000 + 500 * i, 4000 * i)] :
                    ls \in [1..n -> LightnessValues]} : Beside(other)

SpecRange == LightnessInit /\ [][RangeNext]_vars

\* every colour of colors is light (L of 90 or more) or dark (L of 30 or less),
\* and colors has one of each
lightAndDark(colors) ==
  /\ \A i \in 1..Len(colors) : lightnessOf(colors[i]) >= 9000 \/ lightnessOf(colors[i]) <= 3000
  /\ \E i \in 1..Len(colors) : lightnessOf(colors[i]) >= 9000
  /\ \E i \in 1..Len(colors) : lightnessOf(colors[i]) <= 3000

\* C24 as stated: a list of light and dark colours scores no lower on the
\* lightness sub-score than a list of the same size whose total lightness range
\* is narrower but at least 15.
C24_WideRangeNotPenalised ==
  (/\ sOp = "lightnessReasonablenessScore"
   /\ sCompare # NoCompare
   /\ lightAndDark(sColors)
   /\ totalRange(sOther) >= 1500
   /\ totalRange(sOther) < totalRange(sColors))
    => sCompare.left >= sCompare.right

\* ------------------------------------------------------------------------
\* computeHarmonyScore with weights, beside the score of the repeated list
\* ------------------------------------------------------------------------

ExpandLengths == 2..3

\* weights in tenths: 0.3, 1.5 and 4
ExpandWeights == {3, 15, 40}

\* one weight per colour, no weights, or a list that is one too long or too short
ExpandWeightLists(n) ==
  [1..n -> ExpandWeights] \cup {NoWeights, [k \in 1..(n + 1) |-> 40], [k \in 1..(n - 1) |-> 40]}

\* max(1, round(weight)) for a weight in tenths
timesRepeated(w) == Max2(1, (w + 5) \div 10)

\* how many entries the first i colours have in the repeated list
repeatedUpTo(weights, i) == SumSeq([j \in 1..i |-> timesRepeated(weights[j])])

\* colors with colour i repeated timesRepeated(weights[i]) times, built entry by
\* entry; colors itself when the lengths differ
repeatedList(colors, weights) ==
  IF Len(weights) # Len(colors) THEN colors
  ELSE [k \in 1..repeatedUpTo(weights, Len(colors)) |->
          colors[CHOOSE i \in 1..Len(colors) :
                   repeatedUpTo(weights, i - 1) < k /\ k <= repeatedUpTo(weights, i)]]

ExpandInit ==
  /\ \E n \in ExpandLengths :
       /\ sColors \in [1..n -> ScoreColors]
       /\ sWeights \in ExpandWeightLists(n)
  /\ sPalette \in ScorePalettes
  /\ sAlgorithm = "surface-area"
  /\ sScore = -1
  /\ sOp = "none"
  /\ sColor = NoColor
  /\ sDelta = 0
  /\ sCandWeight = NoWeight
  /\ sCandidates = <<>>
  /\ sLight = NoLight
  /\ sBonus = NoBonus
  /\ sOther = <<>>
  /\ sCompare = NoCompare
  /\ items = <<>>
  /\ palette = <<>>
  /\ FillReady
  /\ HarmonyIdle
  /\ TabIdle

\* the score of sColors with sWeights, that of the repeated list without
\* weights, and that of sColors without weights
Expand(a) ==
  /\ sOp = "none"
  /\ sAlgorithm' = a
  /\ sOther' = repeatedList(sColors, sWeights)
  /\ sCompare' = [left  |-> computeHarmonyScore(sColors, a, sPalette, sWeights),
                  right |-> computeHarmonyScore(repeatedList(sColors, sWeights), a,
                                                sPalette, NoWeights),
                  plain |-> computeHarmonyScore(sColors, a, sPalette, NoWeights)]
  /\ sOp' = "expandByWeights"
  /\ UNCHANGED <<scoreInputs, sScore, sColor, sDelta, sCandWeight, sCandidates,
                 sLight, sBonus, fillVars, harmonyVars, tabVars>>

ExpandNext == \E a \in Algorithms : Expand(a)

SpecExpand == ExpandInit /\ [][ExpandNext]_vars

\* C25: for at least two colours, the score with one weight per colour is the
\* score, without weights, of the list with each colour repeated
\* max(1, round(weight)) times; with a weight list of another length it is the
\* score without weights.
C25_WeightsRepeatColours ==
  (sOp = "expandByWeights" /\ Len(sColors) >= 2) =>
    /\ Len(sWeights) = Len(sColors) => sCompare.left = sCompare.right
    /\ Len(sWeights) # Len(sColors) => sCompare.left = sCompare.plain

\* three colours, the second with weight 1.5 and so twice in the repeated list,
\* whose weighted score is not the score without weights
C25_Witness ==
  /\ sOp = "expandByWeights"
  /\ sWeights = <<3, 15, 40>>
  /\ Len(sOther) = 7
  /\ sOther[2] = sColors[2] /\ sOther[3] = sColors[2] /\ sOther[4] = sColors[3]
  /\ sCompare.left = sCompare.right
  /\ sCompare.left # sCompare.plain

\* ------------------------------------------------------------------------
\* itemScoreDelta: the weights of its second score
\* ------------------------------------------------------------------------

\* the weight list itemScoreDelta gives to its second score
sWeightsUsed == weightsWithoutIdx(sWeights, findIndex(sColors, sColor))

\* C26 as stated: the weight list of the second score of itemScoreDelta has the
\* length of that score's colour list and holds, for each colour left, the
\* weight of its item, also when the colour taken out occurs more than once
\* (checked where the second score is computed: two colours or more are left).
C26_WeightsStayAligned ==
  (sOp = "itemScoreDelta" /\ sWeights # NoWeights /\ Len(sWithout) >= 2) =>
    /\ Len(sWeightsUsed) = Len(sWithout)
    /\ sWeightsUsed = sWeightsWithout

\* ------------------------------------------------------------------------
\* autoFillRoom on rooms whose palette colours tie: colours of one lightness
\* and one chroma fit the first item equally
\* ------------------------------------------------------------------------

TiePalettes ==
  { <<Oxblood, Forest>>, <<Forest, Oxblood>>, <<Navy, Cream, Plum>>,
    <<Pearl, Forest, Oxblood, Navy>> }

TiePositions == 1..3

TieInit ==
  /\ items \in {[i \in TiePositions |-> mkItem(i, ks[i], NoColor)] :
                  ks \in [TiePositions -> RoomKinds]}
  /\ palette \in TiePalettes
  /\ FillReady
  /\ ScoreIdle
  /\ HarmonyIdle
  /\ TabIdle

SpecTies == TieInit /\ [][DiversityNext]_vars

\* the fit score of palette colour k for the item the loop is about to process
fitOfNext(k) ==
  LET item == result[Head(order)]
  IN  itemFitScore(palette[k], item.name, getCatalogRole(item.name),
                   getCatalogLightnessRange(item.name), roomColors, roomWeights,
                   item.weight, algorithm, palette, usageCount, remaining, item.tendency)

\* the first palette position whose fit score no position exceeds
firstOfBest ==
  CHOOSE k \in 1..Len(palette) :
    /\ \A j \in 1..Len(palette) : fitOfNext(j) <= fitOfNext(k)
    /\ \A j \in 1..(k - 1) : fitOfNext(j) < fitOfNext(k)

\* the items still to process are in descending weight, equal weights in list order
inStableWeightOrder ==
  \A p \in 1..Len(order) : \A q \in (p + 1)..Len(order) :
    \/ items[order[p]].weight > items[order[q]].weight
    \/ items[order[p]].weight = items[order[q]].weight /\ order[p] < order[q]

\* C29: each iteration of autoFillRoom's loop commits the first colour in palette
\* order among those with the greatest fit score, and the unassigned items are
\* processed heaviest first, items of equal weight in their list order.
C29_TiesResolvedInOrder ==
  /\ [][(pc = "room" /\ order # <<>>) =>
          result'[Head(order)].color = palette[firstOfBest]]_vars
  /\ [](pc = "room" => inStableWeightOrder)

\* a returned room of three items, the heavy ones second and third, whose first
\* two palette colours differ and fitted the item processed first equally well:
\* that item (the second) carries the first of them
C29_Witness ==
  /\ returned("room")
  /\ items[1].weight < items[2].weight /\ items[2].weight = items[3].weight
  /\ palette[1] # palette[2]
  /\ itemFitScore(palette[1], items[2].name, getCatalogRole(items[2].name),
                  getCatalogLightnessRange(items[2].name), <<>>, <<>>, items[2].weight,
                  algorithm, palette, initialUsage(palette, <<>>), Len(items),
                  items[2].tendency)
       = itemFitScore(palette[2], items[2].name, getCatalogRole(items[2].name),
                      getCatalogLightnessRange(items[2].name), <<>>, <<>>, items[2].weight,
                      algorithm, palette, initialUsage(palette, <<>>), Len(items),
                      items[2].tendency)
  /\ result[2].color = palette[1]

\* ------------------------------------------------------------------------
\* generateHarmony called twice with one (lockedColors, mode, count) and two
\* pairs of batchSeed and variation
\* ------------------------------------------------------------------------

TwinBases == {<<>>, <<Terracotta, White>>}

TwinSeeds == {7930, 1700000000}

\* how far the batchSeed of the second call is from that of the first
SeedShifts == {-7919, 0, 7919}

TwinInit ==
  /\ hBases \in TwinBases
  /\ hMode \in HarmonyModes
  /\ hCount = 2
  /\ hBatchSeed \in TwinSeeds
  /\ hOut = [v \in Variations |-> <<>>]
  /\ hCalled = {}
  /\ hLast = 0
  /\ hUsed = <<>>
  /\ hRng = Unseeded
  /\ hCalls = 0
  /\ hTwin = NoTwin
  /\ items = <<>>
  /\ palette = <<>>
  /\ FillReady
  /\ ScoreIdle
  /\ TabIdle

\* the first call of a run, with variation v, and a call with variation w and
\* a batchSeed that is shift away
Twin(v, w, shift) ==
  /\ hCalls = 0
  /\ \E r \in {generateHarmony(hBases, hMode, hCount, v, hBatchSeed)} :
       /\ hOut' = [hOut EXCEPT ![v] = r.colors]
       /\ hUsed' = r.bases
       /\ hRng' = r.rng
  /\ hCalled' = {v}
  /\ hLast' = v
  /\ hCalls' = 1
  /\ hTwin' = [batchSeed |-> hBatchSeed + shift,
               variation |-> w,
               colors    |-> generateHarmony(hBases, hMode, hCount, w,
                                             hBatchSeed + shift).colors]
  /\ UNCHANGED <<harmonyInputs, fillVars, scoreVars, tabVars>>

TwinNext == \E v \in Variations, w \in Variations, shift \in SeedShifts : Twin(v, w, shift)

SpecTwin == TwinInit /\ [][TwinNext]_vars

\* C30: two generateHarmony calls with the same locked colours, mode and count
\* whose batchSeed + variation * 7919 are equal return the same colours in the
\* same order.
C30_SameSumSameColours ==
  (hTwin # NoTwin /\ hTwin.batchSeed + hTwin.variation * 7919 = seedOf(hLast)) =>
    hTwin.colors = lastOut

\* variation 1 of one batch and variation 0 of a batch whose seed is 7919 more
\* returned the same two colours
C30_Witness ==
  /\ hTwin # NoTwin
  /\ hLast = 1 /\ hTwin.variation = 0 /\ hTwin.batchSeed = hBatchSeed + 7919
  /\ Len(lastOut) = 2
  /\ hTwin.colors = lastOut

\* ------------------------------------------------------------------------
\* autoFillRoom as a function
\* ------------------------------------------------------------------------

RECURSIVE roomLoop(_, _, _, _, _, _, _, _)
\* the rest of the loop after an iteration that found palette position best
afterPick(best, order_, res, rColors, rWeights, usage, rem, pal, alg) ==
  IF best # 0
  THEN roomLoop(Tail(order_), [res EXCEPT ![Head(order_)].color = pal[best]],
                Append(rColors, pal[best]), Append(rWeights, res[Head(order_)].weight),
                [usage EXCEPT ![hex(pal[best])] = @ + 1], rem - 1, pal, alg)
  ELSE roomLoop(Tail(order_), res, rColors, rWeights, usage, rem - 1, pal, alg)

\* for (const { idx } of unassignedIndices) { ... }
roomLoop(order_, res, rColors, rWeights, usage, rem, pal, alg) ==
  IF order_ = <<>> THEN res
  ELSE afterPick(pickBest(1, 0, NegInfinity, res[Head(order_)], pal, alg, rColors, rWeights,
                          usage, rem),
                 order_, res, rColors, rWeights, usage, rem, pal, alg)

autoFillRoom(list, pal, alg) ==
  IF Len(pal) = 0 THEN list
  ELSE roomLoop(unassignedIndices(list), list, fixedColors(list), fixedWeights(list),
                initialUsage(pal, fixedColors(list)), Len(unassignedFrom(list, 1)), pal, alg)

\* ------------------------------------------------------------------------
\* The Room tab (RoomTab.tsx, RoomItemRow.tsx): items come from a template or
\* are added one by one, get a colour by hand or from Auto-Fill, are renamed
\* and removed
\* ------------------------------------------------------------------------

\* the ids a run can hand out
TabIds == 1000..1001

TabPalettes == {<<Cream, Oxblood>>, <<Terracotta, Sage, Pearl>>}

\* the first two items of the Living Room template
LivingRoom ==
  << [name |-> "Floors",    weight |-> 30, tendency |-> "any"],
     [name |-> "Main Wall", weight |-> 30, tendency |-> "any"] >>

\* what the catalog and the custom button add
AddKinds ==
  { [name |-> "Doors",    weight |-> 10, tendency |-> "any"],
    [name |-> "New Item", weight |-> 30, tendency |-> "any"] }

\* what a name can be edited to
TabNames == {"Floors", "Main Wall"}

RoomTabInit ==
  /\ items = <<>>
  /\ palette \in TabPalettes
  /\ FillReady
  /\ ScoreIdle
  /\ HarmonyIdle
  /\ TabIdle

\* template.items.map((item) => ({ ...item, id: nextItemId++ }))
instantiateTemplate(template, firstId) ==
  [i \in 1..Len(template) |-> mkItem(firstId + i - 1, template[i], NoColor)]

\* prev.map((item) => (item.id === updated.id ? updated : item))
withUpdated(list, updated) ==
  [i \in 1..Len(list) |-> IF list[i].id = updated.id THEN updated ELSE list[i]]

handleTemplateChange(value) ==
  /\ selectedTemplate' = value
  /\ manuallyAssigned' = {}
  /\ byHand' = {}
  /\ IF value = "custom"
     THEN /\ roomItems' = <<>>
          /\ nextItemId' = nextItemId
     ELSE /\ nextItemId + Len(LivingRoom) - 1 \in TabIds
          /\ roomItems' = instantiateTemplate(LivingRoom, nextItemId)
          /\ nextItemId' = nextItemId + Len(LivingRoom)
  /\ tabOp' = "handleTemplateChange"
  /\ UNCHANGED <<fillVars, scoreVars, harmonyVars, paletteVars>>

handleAddItem(kind) ==
  /\ nextItemId \in TabIds
  /\ roomItems' = Append(roomItems, mkItem(nextItemId, kind, NoColor))
  /\ nextItemId' = nextItemId + 1
  /\ tabOp' = "handleAddItem"
  /\ UNCHANGED <<selectedTemplate, manuallyAssigned, byHand, fillVars, scoreVars,
                 harmonyVars, paletteVars>>

\* setRoomItems and setManuallyAssigned of handleUpdateItem
handleUpdateItem(updated) ==
  /\ roomItems' = withUpdated(roomItems, updated)
  /\ manuallyAssigned' = IF updated.color # NoColor
                         THEN manuallyAssigned \cup {updated.id}
                         ELSE manuallyAssigned \ {updated.id}

\* RoomItemRow: a click on a swatch of the palette strip of item i
handleQuickPick(i, color) ==
  /\ handleUpdateItem([roomItems[i] EXCEPT !.color = color])
  /\ byHand' = byHand \cup {roomItems[i].id}
  /\ tabOp' = "handleQuickPick"
  /\ UNCHANGED <<selectedTemplate, nextItemId, fillVars, scoreVars, harmonyVars, paletteVars>>

\* RoomItemRow: the unassign button of item i, shown when it has a colour
handleUnassign(i) ==
  /\ roomItems[i].color # NoColor
  /\ handleUpdateItem([roomItems[i] EXCEPT !.color = NoColor])
  /\ byHand' = byHand \ {roomItems[i].id}
  /\ tabOp' = "handleUnassign"
  /\ UNCHANGED <<selectedTemplate, nextItemId, fillVars, scoreVars, harmonyVars, paletteVars>>

\* RoomItemRow: an edit of the name field of item i
handleRename(i, name) ==
  /\ roomItems[i].name # name
  /\ handleUpdateItem([roomItems[i] EXCEPT !.name = name])
  /\ tabOp' = "handleRename"
  /\ UNCHANGED <<selectedTemplate, nextItemId, byHand, fillVars, scoreVars, harmonyVars,
                 paletteVars>>

handleRemoveItem(i) ==
  /\ roomItems' = SelectSeq(roomItems, LAMBDA item : item.id # roomItems[i].id)
  /\ byHand' = byHand \ {roomItems[i].id}
  /\ tabOp' = "handleRemoveItem"
  /\ UNCHANGED <<selectedTemplate, manuallyAssigned, nextItemId, fillVars, scoreVars,
                 harmonyVars, paletteVars>>

handleClearAssignments ==
  /\ roomItems' = [i \in 1..Len(roomItems) |-> [roomItems[i] EXCEPT !.color = NoColor]]
  /\ manuallyAssigned' = {}
  /\ byHand' = {}
  /\ tabOp' = "handleClearAssignments"
  /\ UNCHANGED <<selectedTemplate, nextItemId, fillVars, scoreVars, harmonyVars, paletteVars>>

\* list with the colour taken from every item whose id is not in kept
clearedExcept(list, kept) ==
  [i \in 1..Len(list) |->
     IF list[i].id \in kept THEN list[i] ELSE [list[i] EXCEPT !.color = NoColor]]

handleAutoFill ==
  /\ roomItems' = IF Len(palette) = 0 THEN roomItems
                  ELSE autoFillRoom(clearedExcept(roomItems, manuallyAssigned), palette,
                                    algorithm)
  /\ tabOp' = "handleAutoFill"
  /\ UNCHANGED <<selectedTemplate, manuallyAssigned, nextItemId, byHand, fillVars,
                 scoreVars, harmonyVars, paletteVars>>

RoomTabNext ==
  \/ \E value \in {"custom", "0"} : handleTemplateChange(value)
  \/ \E kind \in AddKinds : handleAddItem(kind)
  \/ \E i \in 1..Len(roomItems) : \E k \in 1..Len(palette) : handleQuickPick(i, palette[k])
  \/ \E i \in 1..Len(roomItems) : handleUnassign(i)
  \/ \E i \in 1..Len(roomItems) : \E name \in TabNames : handleRename(i, name)
  \/ \E i \in 1..Len(roomItems) : handleRemoveItem(i)
  \/ handleClearAssignments
  \/ handleAutoFill

SpecRoomTab == RoomTabInit /\ [][RoomTabNext]_vars

\* C27 as stated: an Auto-Fill leaves the room as autoFillRoom returns it for
\* the items with the colour taken from every item but those whose present
\* colour was picked by hand: these keep their colour, every other colour is
\* computed anew.
C27_AutoFillKeepsHandPicked ==
  [][(tabOp' = "handleAutoFill" /\ Len(palette) > 0) =>
       roomItems' = autoFillRoom(clearedExcept(roomItems, byHand), palette, algorithm)]_vars

\* ------------------------------------------------------------------------
\* The Palette tab (PaletteTab.tsx): suggestions are generated, pinned,
\* unpinned and removed, and their number is set
\* ------------------------------------------------------------------------

\* Date.now() at a click on Generate
TabSeeds == {11, 7930}

\* values of the suggestions slider
SuggestionCounts == 1..3

PaletteTabInit ==
  /\ items = <<>>
  /\ palette = <<>>
  /\ FillReady
  /\ ScoreIdle
  /\ HarmonyIdle
  /\ TabIdle

generateMultiplePalettes(locked, mode, count, numSuggestions, batchSeed) ==
  [v \in 1..numSuggestions |-> generateHarmony(locked, mode, count, v - 1, batchSeed).colors]

\* suggestions.filter((s) => s.pinned)
pinnedOf(list) == SelectSeq(list, LAMBDA sg : sg.pinned)

\* a variant that fills as many slots as there are to be suggestions
slotsToFillAll(list, count) == count

slotsToFill(list, count) == count - Len(pinnedOf(list))

unpinnedFrom(fresh, freshIdx) ==
  [k \in 1..(Len(fresh) - freshIdx) |-> [colors |-> fresh[freshIdx + k], pinned |-> FALSE]]

RECURSIVE mergeFrom(_, _, _, _)
\* for (const s of suggestions) { ... } from suggestion i on, then the while loop
mergeFrom(list, i, fresh, freshIdx) ==
  IF i > Len(list) THEN unpinnedFrom(fresh, freshIdx)
  ELSE IF list[i].pinned THEN <<list[i]>> \o mergeFrom(list, i + 1, fresh, freshIdx)
  ELSE IF freshIdx < Len(fresh)
       THEN <<[colors |-> fresh[freshIdx + 1], pinned |-> FALSE]>>
              \o mergeFrom(list, i + 1, fresh, freshIdx + 1)
       ELSE mergeFrom(list, i + 1, fresh, freshIdx)

newSuggestions(list, fresh) ==
  IF Len(list) = 0 THEN unpinnedFrom(fresh, 0) ELSE mergeFrom(list, 1, fresh, 0)

handleGenerate(seed) ==
  /\ suggestions' =
       IF slotsToFill(suggestions, suggestionCount) <= 0 THEN suggestions
       ELSE newSuggestions(suggestions,
                           generateMultiplePalettes(lockedEntries, harmonyMode, colorCount,
                                                    slotsToFill(suggestions, suggestionCount),
                                                    seed))
  /\ tabOp' = "handleGenerate"
  /\ UNCHANGED <<lockedEntries, harmonyMode, colorCount, suggestionCount, roomVars,
                 fillVars, scoreVars, harmonyVars>>

handleTogglePin(idx) ==
  /\ suggestions' = [i \in 1..Len(suggestions) |->
                       IF i = idx THEN [suggestions[i] EXCEPT !.pinned = ~@]
                       ELSE suggestions[i]]
  /\ tabOp' = "handleTogglePin"
  /\ UNCHANGED <<lockedEntries, harmonyMode, colorCount, suggestionCount, roomVars,
                 fillVars, scoreVars, harmonyVars>>

handleRemoveSuggestion(idx) ==
  /\ suggestions' = [i \in 1..(Len(suggestions) - 1) |->
                       IF i < idx THEN suggestions[i] ELSE suggestions[i + 1]]
  /\ tabOp' = "handleRemoveSuggestion"
  /\ UNCHANGED <<lockedEntries, harmonyMode, colorCount, suggestionCount, roomVars,
                 fillVars, scoreVars, harmonyVars>>

setSuggestionCount(n) ==
  /\ n # suggestionCount
  /\ suggestionCount' = n
  /\ tabOp' = "setSuggestionCount"
  /\ UNCHANGED <<lockedEntries, harmonyMode, colorCount, suggestions, roomVars,
                 fillVars, scoreVars, harmonyVars>>

PaletteTabNext ==
  \/ \E seed \in TabSeeds : handleGenerate(seed)
  \/ \E idx \in 1..Len(suggestions) : handleTogglePin(idx)
  \/ \E idx \in 1..Len(suggestions) : handleRemoveSuggestion(idx)
  \/ \E n \in SuggestionCounts : setSuggestionCount(n)

SpecPaletteTab == PaletteTabInit /\ [][PaletteTabNext]_vars

\* the palettes a Generate at seed makes for n free slots, none pinned
freshAt(seed, n) ==
  [v \in 1..n |-> [colors |-> generateHarmony(lockedEntries, harmonyMode, colorCount, v - 1,
                                              seed).colors,
                   pinned |-> FALSE]]

\* C28: a Generate with fewer pinned suggestions than suggestionCount leaves the
\* pinned suggestions as they were and in their order, leaves no other
\* suggestion but the palettes freshly generated for the free slots, and leaves
\* suggestionCount suggestions; with suggestionCount pinned suggestions or more
\* it changes nothing.
C28_GenerateKeepsPinned ==
  [][tabOp' = "handleGenerate" =>
       IF Len(pinnedOf(suggestions)) >= suggestionCount THEN suggestions' = suggestions
       ELSE /\ pinnedOf(suggestions') = pinnedOf(suggestions)
            /\ Len(suggestions') = suggestionCount
            /\ \E seed \in TabSeeds :
                 SelectSeq(suggestions', LAMBDA sg : ~sg.pinned)
                   = freshAt(seed, suggestionCount - Len(pinnedOf(suggestions)))]_vars

\* after a Generate: three suggestions, the second pinned and from an earlier
\* batch, the first and the third the two palettes of the last batch
C28_Witness ==
  /\ tabOp = "handleGenerate"
  /\ suggestionCount = 3 /\ Len(suggestions) = 3
  /\ suggestions[2] = [freshAt(7930, 2)[2] EXCEPT !.pinned = TRUE]
  /\ suggestions[1] = freshAt(11, 2)[1]
  /\ suggestions[3] = freshAt(11, 2)[2]

====
